---- MODULE Spec2Model ----
(***************************************************************************)
(* CalGen: the POST /api/events handler of the server (content            *)
(* resolution with cache, rate limiter and retry; slot allocation; batch  *)
(* execution against the calendar store; summary).                        *)
(*                                                                         *)
(* Time.  Wall-clock durations are counted in seconds (the code's          *)
(* milliseconds divided by 1000).  The code never uses the absolute value  *)
(* of Date.now() in the retry, cache and rate-limit logic, only            *)
(* differences, so the model keeps the differences: the age of the         *)
(* rate-limit window, the age of every cache entry and the remaining       *)
(* time of every sleep.  An age saturates at the threshold the code        *)
(* compares it with, which loses nothing.                                  *)
(* Calendar times are minutes counted from 00:00 of the current day of     *)
(* the server (day 0); the server's clock is taken strictly inside day 0   *)
(* and its local time zone is UTC.                                         *)
(***************************************************************************)
EXTENDS Integers, Sequences, FiniteSets, TLC

\* ------------------------------------------------------------------ bounds
NumReqs == 2            \* requests that can be processed concurrently
MaxCount == 4           \* largest in-range count submitted
MaxProviderItems == 2   \* longest item list a provider reply carries
CallCap == 6            \* provider calls of one request are counted up to here
RetryCap == 5           \* retryCount is tracked exactly up to here
SendCap == 62           \* provider requests of one minute are counted up to here
MaxGets == 2            \* GET /api/events/created requests answered
MaxDeletes == 2         \* DELETE /api/events requests answered
MaxMinutes == 3000       \* largest argument of formatDuration

\* ------------------------------------------------------- program constants
MAX_REQUESTS_PER_MINUTE == 60
RATE_WINDOW == 60               \* 60000 ms
CACHE_TTL == 300                \* 300000 ms
MAX_RETRIES == 3
DEFAULT_RETRY_AFTER == 5        \* 5000 ms
BACKOFF_CAP == 8                \* 8000 ms
MAX_COUNT == 30
maxAttempts == 20
BUFFER_MINUTES == 15
BATCH_SIZE == 3
DELAY_BETWEEN_BATCHES == 2      \* 2000 ms
DEFAULT_DURATION == 60
MINUTES_PER_DAY == 1440
ONE_YEAR_DAYS == 365

Reqs == 1..NumReqs

Min(a, b) == IF a < b THEN a ELSE b
Max(a, b) == IF a > b THEN a ELSE b
CeilDiv(a, b) == (a + b - 1) \div b
Pow2(n) == IF n <= 0 THEN 1 ELSE IF n = 1 THEN 2 ELSE IF n = 2 THEN 4 ELSE 8
SubSeqFrom(s, a, b) == IF a > b THEN << >> ELSE SubSeq(s, a, b)
\* Array.prototype.slice(0, n)
Slice0(s, n) == SubSeqFrom(s, 1, Min(Len(s), n))

\* ------------------------------------------------------------------ strings
\* A string is a sequence of one-character strings.
Lower(c) ==
  IF c = "G" THEN "g" ELSE IF c = "W" THEN "w" ELSE IF c = "S" THEN "s" ELSE c
toLowerCase(s) == [k \in 1..Len(s) |-> Lower(s[k])]
IsSpace(c) == c = " "
RECURSIVE TrimLeft(_)
TrimLeft(s) == IF s # << >> /\ IsSpace(Head(s)) THEN TrimLeft(Tail(s)) ELSE s
RECURSIVE TrimRight(_)
TrimRight(s) ==
  IF s # << >> /\ IsSpace(s[Len(s)]) THEN TrimRight(SubSeqFrom(s, 1, Len(s) - 1)) ELSE s
trim(s) == TrimRight(TrimLeft(s))
includes(s, w) ==
  \E k \in 0..(Len(s) - Len(w)) : SubSeq(s, k + 1, k + Len(w)) = w

Str_gym == <<"g", "y", "m">>
Str_GymSp == <<"G", "y", "m", " ">>
Str_work == <<"w", "o", "r", "k">>
Str_study == <<"s", "t", "u", "d", "y">>
Str_job == <<"j", "o", "b">>
Str_office == <<"o", "f", "f", "i", "c", "e">>
Str_meeting == <<"m", "e", "e", "t", "i", "n", "g">>
Str_academic == <<"a", "c", "a", "d", "e", "m", "i", "c">>
Str_school == <<"s", "c", "h", "o", "o", "l">>
Str_college == <<"c", "o", "l", "l", "e", "g", "e">>
Str_university == <<"u", "n", "i", "v", "e", "r", "s", "i", "t", "y">>
Str_empty == << >>

\* getCacheKey without the normalisation of the description.
getCacheKey_Raw(userInput, eventCount) == <<userInput, eventCount>>

\* getCacheKey: `${userInput.toLowerCase().trim()}_${eventCount}`
getCacheKey(userInput, eventCount) == <<trim(toLowerCase(userInput)), eventCount>>

\* ----------------------------------------------------- fallback generator
\* FALLBACK_EVENTS: per category the template titles and durations.
FALLBACK_EVENTS ==
  [work |->
     << <<"Team Standup Meeting", 30>>, <<"Code Review Session", 60>>,
        <<"Project Planning", 90>>, <<"Client Call", 45>>,
        <<"Documentation Writing", 60>>, <<"Team Retrospective", 60>>,
        <<"Sprint Planning", 120>>, <<"One-on-One Meeting", 30>>,
        <<"Team Sync", 30>>, <<"Status Update Meeting", 30>> >>,
   personal |->
     << <<"Gym Workout", 60>>, <<"Grocery Shopping", 45>>,
        <<"Reading Time", 60>>, <<"Meal Prep", 45>>,
        <<"Walk in the Park", 30>>, <<"Meditation Session", 20>>,
        <<"Call with Family", 60>>, <<"Hobby Time", 90>>,
        <<"Coffee with Friends", 60>>, <<"Movie Night", 120>> >>,
   academic |->
     << <<"Study Session", 90>>, <<"Lecture Review", 60>>,
        <<"Assignment Work", 120>>, <<"Research Reading", 75>>,
        <<"Online Course", 60>>, <<"Group Project Meeting", 90>>,
        <<"Exam Preparation", 180>>, <<"Note Review", 45>>,
        <<"Library Study", 120>>, <<"Lab Work", 90>> >>]

selectedCategory(userInput) ==
  LET input == toLowerCase(userInput) IN
  IF \/ includes(input, Str_work) \/ includes(input, Str_job)
     \/ includes(input, Str_office) \/ includes(input, Str_meeting)
  THEN "work"
  ELSE IF \/ includes(input, Str_study) \/ includes(input, Str_academic)
          \/ includes(input, Str_school) \/ includes(input, Str_college)
          \/ includes(input, Str_university)
  THEN "academic"
  ELSE "personal"

\* A content item: title is <<template title, pass suffix (0 = none)>>;
\* numeric tells whether duration is a number; src records who produced it.
Item(t, sfx, d, num, src) ==
  [title |-> <<t, sfx>>, duration |-> d, numeric |-> num, src |-> src]

\* The title of an item as the template literal builds it:
\* `${event.title} ${i >= events.length ? `(${pass})` : ""}`.
TitleText(title) ==
  <<title[1], " ">> \o (IF title[2] = 0 THEN << >> ELSE <<"(", title[2], ")">>)

\* The pass number is appended in the first pass too.
generateFallbackEvents_SuffixAlways(userInput, eventCount) ==
  LET templates == FALLBACK_EVENTS[selectedCategory(userInput)]
      L == Len(templates)
  IN [k \in 1..eventCount |->
        LET i == k - 1
            event == templates[(i % L) + 1]
        IN Item(event[1], (i \div L) + 1, event[2], TRUE, "fallback")]

\* The pass number is never appended.
generateFallbackEvents_NoSuffix(userInput, eventCount) ==
  LET templates == FALLBACK_EVENTS[selectedCategory(userInput)]
      L == Len(templates)
  IN [k \in 1..eventCount |->
        LET i == k - 1
            event == templates[(i % L) + 1]
        IN Item(event[1], 0, event[2], TRUE, "fallback")]

generateFallbackEvents(userInput, eventCount) ==
  LET templates == FALLBACK_EVENTS[selectedCategory(userInput)]
      L == Len(templates)
  IN [k \in 1..eventCount |->
        LET i == k - 1
            event == templates[(i % L) + 1]
        IN Item(event[1], IF i >= L THEN (i \div L) + 1 ELSE 0,
                event[2], TRUE, "fallback")]

\* ------------------------------------------------------------------- state
VARIABLES
  pc,               \* position of each request's handler
  req,              \* the request body (and the token file's presence on arrival)
  response,         \* what res.status(..).json(..) sent
  retryCount,       \* argument of generateDynamicEventTitles
  sleepLeft,        \* remaining time of the sleep the handler awaits
  eventTitles,      \* content items
  allocI,           \* index i of the allocation loop
  scheduledEvents, createdEvents, skippedEvents,
  batchI,           \* index i of the batch loop
  inFlight,         \* store inserts dispatched and not yet settled
  events, successfulCount, failedCount,
  REQUEST_CACHE,    \* key -> [events, age]
  requestCount,     \* requests counted in the current rate-limit window
  windowAge,        \* Date.now() - lastMinuteReset, saturating at RATE_WINDOW
  calendar,         \* events held by the calendar store
  providerCalls,    \* history: provider requests sent by each request
  storeCalls,       \* history: calendar.events.insert calls per created-event index
  elapsed,          \* history: time since the start, saturating at CACHE_TTL
  sendWindow,       \* history: provider requests sent in the current minute
  listing,          \* the last answer of GET /api/events/created
  deletion,         \* DELETE /api/events: its position, the events found, its answer
  utilCall          \* a direct call of a helper function: its arguments and result

reqVars == <<pc, req, response>>
contentVars == <<retryCount, eventTitles>>
allocVars == <<allocI, scheduledEvents, createdEvents, skippedEvents>>
batchVars == <<batchI, inFlight, events, successfulCount, failedCount>>
sharedVars == <<REQUEST_CACHE, requestCount, windowAge>>
histVars == <<providerCalls, storeCalls, sendWindow>>
mgmtVars == <<listing, deletion>>
vars == <<reqVars, contentVars, allocVars, batchVars, sharedVars, histVars,
          sleepLeft, calendar, elapsed, mgmtVars, utilCall>>

NoDate == [kind |-> "missing", day |-> 0]
BadDate == [kind |-> "invalid", day |-> 0]
Date(d) == [kind |-> "date", day |-> d]

NoBody ==
  [authorized |-> FALSE, startDate |-> NoDate, endDate |-> NoDate, count |-> 0,
   userInput |-> Str_empty, earliestStartTime |-> 8, estNumeric |-> TRUE]
NoResponse == [status |-> 0, created |-> << >>, successful |-> 0, failed |-> 0]
ErrorResponse(code) == [status |-> code, created |-> << >>, successful |-> 0, failed |-> 0]

NoListing == [n |-> 0, status |-> 0, events |-> {}]
NoDeletion ==
  [n |-> 0, pc |-> "idle", found |-> {}, status |-> 0, total_found |-> 0,
   successfully_deleted |-> 0, failed_deletions |-> 0,
   stored |-> {}]   \* history: the store's events when the handler listed them

\* No helper function is called on its own.
NoCall == [fn |-> "none", args |-> << >>, done |-> FALSE, result |-> << >>]

\* The server has started: no request has arrived, cache and store are empty.
Started ==
  /\ pc = [r \in Reqs |-> "idle"]
  /\ req = [r \in Reqs |-> NoBody]
  /\ response = [r \in Reqs |-> NoResponse]
  /\ retryCount = [r \in Reqs |-> 0]
  /\ sleepLeft = [r \in Reqs |-> 0]
  /\ eventTitles = [r \in Reqs |-> << >>]
  /\ allocI = [r \in Reqs |-> 0]
  /\ scheduledEvents = [r \in Reqs |-> << >>]
  /\ createdEvents = [r \in Reqs |-> << >>]
  /\ skippedEvents = [r \in Reqs |-> 0]
  /\ batchI = [r \in Reqs |-> 0]
  /\ inFlight = [r \in Reqs |-> 0]
  /\ events = [r \in Reqs |-> << >>]
  /\ successfulCount = [r \in Reqs |-> 0]
  /\ failedCount = [r \in Reqs |-> 0]
  /\ REQUEST_CACHE = << >>
  /\ requestCount = 0
  /\ windowAge = 0
  /\ calendar = {}
  /\ providerCalls = [r \in Reqs |-> 0]
  /\ storeCalls = [r \in Reqs |-> << >>]
  /\ elapsed = 0
  /\ sendWindow = [age |-> RATE_WINDOW, sends |-> 0]
  /\ listing = NoListing
  /\ deletion = NoDeletion

Init == Started /\ utilCall = NoCall

\* ---------------------------------------------------------- input validation
\* Validate without the upper bound on count.
Validate_NoUpperBound(body) ==
  IF ~body.authorized THEN 401
  ELSE IF body.startDate.kind = "missing" \/ body.endDate.kind = "missing" THEN 400
  ELSE IF body.startDate.kind = "invalid" \/ body.endDate.kind = "invalid" THEN 400
  ELSE IF body.endDate.day < body.startDate.day THEN 400
  ELSE IF body.count < 1 THEN 400
  ELSE 0

\* The status the validation of app.post("/api/events") answers with, 0 when
\* the request passes.
Validate(body) ==
  IF ~body.authorized THEN 401
  ELSE IF body.startDate.kind = "missing" \/ body.endDate.kind = "missing" THEN 400
  ELSE IF body.startDate.kind = "invalid" \/ body.endDate.kind = "invalid" THEN 400
  ELSE IF body.endDate.day < body.startDate.day THEN 400
  ELSE IF body.count < 1 \/ body.count > MAX_COUNT THEN 400
  ELSE 0

\* The handler up to its first await (ensureValidTokens).
ReceiveRequest(r, body) ==
  /\ pc[r] = "idle"
  /\ req' = [req EXCEPT ![r] = body]
  /\ IF Validate(body) # 0
     THEN /\ pc' = [pc EXCEPT ![r] = "rejected"]
          /\ response' = [response EXCEPT ![r] = ErrorResponse(Validate(body))]
     ELSE /\ pc' = [pc EXCEPT ![r] = "gen"]
          /\ UNCHANGED response
  /\ UNCHANGED <<contentVars, allocVars, batchVars, sharedVars, histVars,
                 sleepLeft, calendar, elapsed, mgmtVars, utilCall>>

\* ---------------------------------------------------- cache and rate limiter
\* getCachedEvents that still returns an entry at the age of the TTL.
getCachedEvents_Inclusive(cache, cacheKey) ==
  IF cacheKey \in DOMAIN cache /\ cache[cacheKey].age <= CACHE_TTL
  THEN cache[cacheKey].events
  ELSE << >>

\* getCachedEvents: the entry's events while it is younger than the TTL, else
\* null (here << >>; the code never stores an empty list).
getCachedEvents(cache, cacheKey) ==
  IF cacheKey \in DOMAIN cache /\ cache[cacheKey].age < CACHE_TTL
  THEN cache[cacheKey].events
  ELSE << >>

\* cacheEvents that appends to the list the key already holds.
cacheEvents_Appends(cache, cacheKey, evts) ==
  [k \in DOMAIN cache \cup {cacheKey} |->
     IF k = cacheKey
     THEN [events |-> (IF k \in DOMAIN cache THEN cache[k].events ELSE << >>) \o evts,
           age |-> 0]
     ELSE cache[k]]

\* cacheEvents: REQUEST_CACHE.set(cacheKey, {events, timestamp: Date.now()})
cacheEvents(cache, cacheKey, evts) ==
  [k \in DOMAIN cache \cup {cacheKey} |->
     IF k = cacheKey THEN [events |-> evts, age |-> 0] ELSE cache[k]]

\* checkRateLimit: <<requestCount', windowAge', waitTime>>
checkRateLimit(cnt, age) ==
  LET cnt1 == IF age >= RATE_WINDOW THEN 0 ELSE cnt
      age1 == IF age >= RATE_WINDOW THEN 0 ELSE age
  IN IF cnt1 >= MAX_REQUESTS_PER_MINUTE
     THEN <<cnt1, age1, RATE_WINDOW - age1>>
     ELSE <<cnt1 + 1, age1, 0>>

\* ------------------------------------------------------- content resolution
\* The handler goes from content resolution straight to the batch loop.
FinishContent_SkipsAllocation(r, titles) ==
  LET count == req[r].count
      padded == IF Len(titles) < count
                THEN titles \o generateFallbackEvents(req[r].userInput, count - Len(titles))
                ELSE titles
  IN /\ eventTitles' = [eventTitles EXCEPT ![r] = Slice0(padded, count)]
     /\ pc' = [pc EXCEPT ![r] = "settling"]

\* The list is cut to count but not padded.
FinishContent_NoPadding(r, titles) ==
  /\ eventTitles' = [eventTitles EXCEPT ![r] = Slice0(titles, req[r].count)]
  /\ pc' = [pc EXCEPT ![r] = "alloc"]

\* What app.post does with the list generateDynamicEventTitles returned:
\* pad with fallback items, cut to count, and enter the allocation loop.
FinishContent(r, titles) ==
  LET count == req[r].count
      padded == IF Len(titles) < count
                THEN titles \o generateFallbackEvents(req[r].userInput, count - Len(titles))
                ELSE titles
  IN /\ eventTitles' = [eventTitles EXCEPT ![r] = Slice0(padded, count)]
     /\ pc' = [pc EXCEPT ![r] = "alloc"]

CountCall(r) == [providerCalls EXCEPT ![r] = Min(@ + 1, CallCap)]

\* A provider request is sent: it falls into the minute that began with the
\* first request sent after the previous minute was over.
LogSend(w) ==
  IF w.age >= RATE_WINDOW
  THEN [age |-> 0, sends |-> 1]
  ELSE [w EXCEPT !.sends = Min(@ + 1, SendCap)]

\* Entry of generateDynamicEventTitles: cache check, rate-limit check, fetch sent.
GenEnter(r) ==
  /\ pc[r] = "gen"
  /\ LET cacheKey == getCacheKey(req[r].userInput, req[r].count)
         cachedEvents == getCachedEvents(REQUEST_CACHE, cacheKey)
         rl == checkRateLimit(requestCount, windowAge)
     IN IF cachedEvents # << >>
        THEN /\ FinishContent(r, Slice0(cachedEvents, req[r].count))
             /\ UNCHANGED <<requestCount, windowAge, sleepLeft, providerCalls,
                            sendWindow>>
        ELSE /\ requestCount' = rl[1]
             /\ windowAge' = rl[2]
             /\ UNCHANGED eventTitles
             /\ IF rl[3] > 0
                THEN /\ pc' = [pc EXCEPT ![r] = "ratewait"]
                     /\ sleepLeft' = [sleepLeft EXCEPT ![r] = rl[3]]
                     /\ UNCHANGED <<providerCalls, sendWindow>>
                ELSE /\ pc' = [pc EXCEPT ![r] = "fetch"]
                     /\ providerCalls' = CountCall(r)
                     /\ sendWindow' = LogSend(sendWindow)
                     /\ UNCHANGED sleepLeft
  /\ UNCHANGED <<req, response, retryCount, allocVars, batchVars, REQUEST_CACHE,
                 storeCalls, calendar, elapsed, mgmtVars, utilCall>>

\* The rate-limit sleep is over: the fetch is sent.
SendAfterWait(r) ==
  /\ pc[r] = "ratewait"
  /\ sleepLeft[r] = 0
  /\ pc' = [pc EXCEPT ![r] = "fetch"]
  /\ providerCalls' = CountCall(r)
  /\ sendWindow' = LogSend(sendWindow)
  /\ UNCHANGED <<req, response, contentVars, allocVars, batchVars, sharedVars,
                 storeCalls, sleepLeft, calendar, elapsed, mgmtVars, utilCall>>

FailureKinds == {"rate_limited", "http_error", "timeout", "network", "malformed", "empty"}

\* isRetryable that also lets unusable replies through.
isRetryable_AlsoUnusable(kind) == kind \in {"timeout", "malformed", "empty"}

\* isRetryable in the catch block: the error message contains "429",
\* "rate limit" or "timeout", or the error is an AbortError.  Only the abort of
\* the timed-out fetch produces such an error: a 429 reply is handled before
\* anything is thrown.
isRetryable(kind) == kind = "timeout"

\* errorData?.error?.retry_after || 5000, in milliseconds; the sleep in seconds.
RetryAfterSeconds(retryAfter) ==
  (IF retryAfter = 0 THEN DEFAULT_RETRY_AFTER * 1000 ELSE retryAfter) \div 1000

\* A list shorter than the requested count is treated as a temporary failure
\* and the provider is asked again.
ProviderReply_RetriesOnShortfall(r, kind, items, retryAfter) ==
  /\ pc[r] = "fetch"
  /\ IF kind = "ok" /\ Len(items) >= req[r].count
     THEN /\ items # << >>
          /\ REQUEST_CACHE' = cacheEvents(REQUEST_CACHE,
                                getCacheKey(req[r].userInput, req[r].count), items)
          /\ FinishContent(r, items)
          /\ UNCHANGED sleepLeft
     ELSE IF kind = "rate_limited"
     THEN /\ pc' = [pc EXCEPT ![r] = "sleep429"]
          /\ sleepLeft' = [sleepLeft EXCEPT ![r] = RetryAfterSeconds(retryAfter)]
          /\ UNCHANGED <<REQUEST_CACHE, eventTitles>>
     ELSE IF (kind = "ok" \/ isRetryable(kind)) /\ retryCount[r] < MAX_RETRIES
     THEN /\ pc' = [pc EXCEPT ![r] = "backoff"]
          /\ sleepLeft' = [sleepLeft EXCEPT ![r] = Min(Pow2(retryCount[r]), BACKOFF_CAP)]
          /\ UNCHANGED <<REQUEST_CACHE, eventTitles>>
     ELSE /\ FinishContent(r, generateFallbackEvents(req[r].userInput, req[r].count))
          /\ UNCHANGED <<REQUEST_CACHE, sleepLeft>>
  /\ UNCHANGED <<req, response, retryCount, allocVars, batchVars, requestCount,
                 windowAge, histVars, calendar, elapsed, mgmtVars, utilCall>>

\* The provider's reply arrives; the fallback list is written to the cache.
ProviderReply_CachesFallback(r, kind, items, retryAfter) ==
  /\ pc[r] = "fetch"
  /\ IF kind = "ok"
     THEN /\ items # << >>
          /\ REQUEST_CACHE' = cacheEvents(REQUEST_CACHE,
                                getCacheKey(req[r].userInput, req[r].count), items)
          /\ FinishContent(r, items)
          /\ UNCHANGED sleepLeft
     ELSE IF kind = "rate_limited"
     THEN /\ pc' = [pc EXCEPT ![r] = "sleep429"]
          /\ sleepLeft' = [sleepLeft EXCEPT ![r] = RetryAfterSeconds(retryAfter)]
          /\ UNCHANGED <<REQUEST_CACHE, eventTitles>>
     ELSE IF isRetryable(kind) /\ retryCount[r] < MAX_RETRIES
     THEN /\ pc' = [pc EXCEPT ![r] = "backoff"]
          /\ sleepLeft' = [sleepLeft EXCEPT ![r] = Min(Pow2(retryCount[r]), BACKOFF_CAP)]
          /\ UNCHANGED <<REQUEST_CACHE, eventTitles>>
     ELSE /\ FinishContent(r, generateFallbackEvents(req[r].userInput, req[r].count))
          /\ REQUEST_CACHE' = cacheEvents(REQUEST_CACHE,
                                getCacheKey(req[r].userInput, req[r].count),
                                generateFallbackEvents(req[r].userInput, req[r].count))
          /\ UNCHANGED sleepLeft
  /\ UNCHANGED <<req, response, retryCount, allocVars, batchVars, requestCount,
                 windowAge, histVars, calendar, elapsed, mgmtVars, utilCall>>

\* The provider's reply arrives (retryAfter: the retry_after field of a 429
\* reply, 0 when it has none).
ProviderReply(r, kind, items, retryAfter) ==
  /\ pc[r] = "fetch"
  /\ IF kind = "ok"
     THEN /\ items # << >>
          /\ REQUEST_CACHE' = cacheEvents(REQUEST_CACHE,
                                getCacheKey(req[r].userInput, req[r].count), items)
          /\ FinishContent(r, items)
          /\ UNCHANGED sleepLeft
     ELSE IF kind = "rate_limited"
     THEN /\ pc' = [pc EXCEPT ![r] = "sleep429"]
          /\ sleepLeft' = [sleepLeft EXCEPT ![r] = RetryAfterSeconds(retryAfter)]
          /\ UNCHANGED <<REQUEST_CACHE, eventTitles>>
     ELSE IF isRetryable(kind) /\ retryCount[r] < MAX_RETRIES
     THEN /\ pc' = [pc EXCEPT ![r] = "backoff"]
          /\ sleepLeft' = [sleepLeft EXCEPT ![r] = Min(Pow2(retryCount[r]), BACKOFF_CAP)]
          /\ UNCHANGED <<REQUEST_CACHE, eventTitles>>
     ELSE /\ FinishContent(r, generateFallbackEvents(req[r].userInput, req[r].count))
          /\ UNCHANGED <<REQUEST_CACHE, sleepLeft>>
  /\ UNCHANGED <<req, response, retryCount, allocVars, batchVars, requestCount,
                 windowAge, histVars, calendar, elapsed, mgmtVars, utilCall>>

\* The sleep before a retry is over: generateDynamicEventTitles calls itself
\* with retryCount + 1.
Retry(r) ==
  /\ pc[r] \in {"sleep429", "backoff"}
  /\ sleepLeft[r] = 0
  /\ retryCount' = [retryCount EXCEPT ![r] = Min(@ + 1, RetryCap)]
  /\ pc' = [pc EXCEPT ![r] = "gen"]
  /\ UNCHANGED <<req, response, eventTitles, allocVars, batchVars, sharedVars,
                 histVars, sleepLeft, calendar, elapsed, mgmtVars, utilCall>>

\* ------------------------------------------------------------ slot allocation
\* totalDays = max(1, ceil((parsedEndDate - parsedStartDate) / day) + 1)
totalDays(body) == Max(1, (body.endDate.day - body.startDate.day) + 1)

\* daysOffset = floor((i / max(1, count - 1)) * max(1, totalDays - 1))
daysOffset(i, count, days) == (i * Max(1, days - 1)) \div Max(1, count - 1)

\* offsetDate < now || offsetDate > oneYearFromNow, for offsetDate at 00:00 of
\* day d and now strictly inside day 0.
OutOfRange(d) == d < 1 \/ d > ONE_YEAR_DAYS

getHours(t) == (t \div 60) % 24

\* Index of the first scheduled event the candidate overlaps, 0 when none:
\* for (const event of scheduledEvents) if (finalStart < event.end && finalEnd > event.start)
FirstOverlap(sched, finalStart, finalEnd) ==
  LET hits == {k \in 1..Len(sched) :
                 finalStart < sched[k].end /\ finalEnd > sched[k].start}
  IN IF hits = {} THEN 0 ELSE CHOOSE k \in hits : \A m \in hits : k <= m

\* The while (attempts < maxAttempts) loop: the start it leaves in finalStart.
RECURSIVE OverlapLoop(_, _, _, _, _)
OverlapLoop(finalStart, duration, attempts, sched, earliestStartTime) ==
  LET finalEnd == finalStart + duration
      eventEndHour == getHours(finalEnd)
      hit == FirstOverlap(sched, finalStart, finalEnd)
  IN IF attempts >= maxAttempts THEN finalStart
     ELSE IF eventEndHour >= 1 /\ eventEndHour < earliestStartTime
     THEN OverlapLoop(((finalStart \div MINUTES_PER_DAY) + 1) * MINUTES_PER_DAY
                        + earliestStartTime * 60,
                      duration, attempts + 1, sched, earliestStartTime)
     ELSE IF hit # 0
     THEN OverlapLoop(sched[hit].end + BUFFER_MINUTES, duration, attempts + 1,
                      sched, earliestStartTime)
     ELSE finalStart

\* if (!eventData || !eventData.duration) eventData = default event
EventData(titles, i) ==
  IF i + 1 > Len(titles) \/ (titles[i + 1].numeric /\ titles[i + 1].duration = 0)
  THEN Item("Generated Event", i + 1, DEFAULT_DURATION, TRUE, "default")
  ELSE titles[i + 1]

\* The resource with an end one default duration after the start.
CalendarEvent_FixedLength(eventData, start, end) ==
  [summary |-> eventData.title, start |-> start, end |-> start + DEFAULT_DURATION,
   generated_by |-> "funny_calendar_filler", src |-> eventData.src]

\* The resource handed to calendar.events.insert.
CalendarEvent(eventData, start, end) ==
  [summary |-> eventData.title, start |-> start, end |-> end,
   generated_by |-> "funny_calendar_filler", src |-> eventData.src]

StoreId(r, n) == [failed |-> FALSE, owner |-> r, n |-> n]
FailedId(n) == [failed |-> TRUE, owner |-> 0, n |-> n]

Summary(evts, ok, ko) ==
  [status |-> 200, created |-> evts, successful |-> ok, failed |-> ko]

\* The batch loop without groups: every remaining insert is dispatched at once.
BatchLoop_AllAtOnce(r, ce, i, evts, ok, ko) ==
  /\ batchI' = [batchI EXCEPT ![r] = i]
  /\ events' = [events EXCEPT ![r] = evts]
  /\ successfulCount' = [successfulCount EXCEPT ![r] = ok]
  /\ failedCount' = [failedCount EXCEPT ![r] = ko]
  /\ IF i < Len(ce)
     THEN /\ pc' = [pc EXCEPT ![r] = "settling"]
          /\ inFlight' = [inFlight EXCEPT ![r] = Len(ce) - i]
          /\ storeCalls' = [storeCalls EXCEPT ![r] =
               [k \in 1..Len(ce) |->
                  LET old == IF k <= Len(@) THEN @[k] ELSE 0
                  IN IF k > i THEN old + 1 ELSE old]]
          /\ UNCHANGED response
     ELSE /\ pc' = [pc EXCEPT ![r] = "done"]
          /\ inFlight' = [inFlight EXCEPT ![r] = 0]
          /\ response' = [response EXCEPT ![r] = Summary(evts, ok, ko)]
          /\ UNCHANGED storeCalls

\* The batch loop at index i: the inserts of createdEvents[i .. i+BATCH_SIZE-1]
\* are dispatched and awaited, or, past the end, the summary is sent.
BatchLoop(r, ce, i, evts, ok, ko) ==
  /\ batchI' = [batchI EXCEPT ![r] = i]
  /\ events' = [events EXCEPT ![r] = evts]
  /\ successfulCount' = [successfulCount EXCEPT ![r] = ok]
  /\ failedCount' = [failedCount EXCEPT ![r] = ko]
  /\ IF i < Len(ce)
     THEN /\ pc' = [pc EXCEPT ![r] = "settling"]
          /\ inFlight' = [inFlight EXCEPT ![r] = Min(BATCH_SIZE, Len(ce) - i)]
          /\ storeCalls' = [storeCalls EXCEPT ![r] =
               [k \in 1..Len(ce) |->
                  LET old == IF k <= Len(@) THEN @[k] ELSE 0
                  IN IF k > i /\ k <= i + BATCH_SIZE THEN old + 1 ELSE old]]
          /\ UNCHANGED response
     ELSE /\ pc' = [pc EXCEPT ![r] = "done"]
          /\ inFlight' = [inFlight EXCEPT ![r] = 0]
          /\ response' = [response EXCEPT ![r] = Summary(evts, ok, ko)]
          /\ UNCHANGED storeCalls

\* The iteration keeps only the newest interval in the scheduled set.
AllocateSlot_ForgetsEarlier(r, jitter, hourVariation, minuteVariation) ==
  /\ pc[r] = "alloc"
  /\ LET body == req[r]
         i == allocI[r]
         eventData == EventData(eventTitles[r], i)
         offsetDay == body.startDate.day
                        + daysOffset(i, body.count, totalDays(body)) + jitter
         est == body.earliestStartTime
         maxStartHour == Max(est, 24 - CeilDiv(eventData.duration, 60) - 1)
         finalHour == Max(est, Min(maxStartHour, est + hourVariation))
         eventStartDate == offsetDay * MINUTES_PER_DAY + finalHour * 60 + minuteVariation
         skip == ~body.estNumeric \/ ~eventData.numeric
         finalStart == OverlapLoop(eventStartDate, eventData.duration, 0,
                                   scheduledEvents[r], est)
         finalEnd == finalStart + eventData.duration
         event == CalendarEvent(eventData, finalStart, finalEnd)
         sched1 == IF skip THEN scheduledEvents[r]
                   ELSE <<[start |-> finalStart, end |-> finalEnd, title |-> event.summary]>>
         ce1 == IF skip THEN createdEvents[r]
                ELSE Append(createdEvents[r],
                       [event |-> event, duration |-> eventData.duration])
     IN IF OutOfRange(offsetDay)
        THEN \* console.error(..., {.., totalDayOffset, ..}): totalDayOffset is not
             \* declared, the ReferenceError lands in the handler's catch
             /\ pc' = [pc EXCEPT ![r] = "error"]
             /\ response' = [response EXCEPT ![r] = ErrorResponse(500)]
             /\ UNCHANGED <<allocVars, batchVars, storeCalls>>
        ELSE /\ allocI' = [allocI EXCEPT ![r] = i + 1]
             /\ scheduledEvents' = [scheduledEvents EXCEPT ![r] = sched1]
             /\ createdEvents' = [createdEvents EXCEPT ![r] = ce1]
             /\ skippedEvents' = [skippedEvents EXCEPT ![r] = IF skip THEN @ + 1 ELSE @]
             /\ IF i + 1 < body.count
                THEN UNCHANGED <<pc, response, batchVars, storeCalls>>
                ELSE BatchLoop(r, ce1, 0, << >>, 0, 0)
  /\ UNCHANGED <<req, contentVars, sharedVars, providerCalls, sendWindow, sleepLeft,
                 calendar, elapsed, mgmtVars, utilCall>>

\* One iteration of for (let i = 0; i < count; i++); after the last one the
\* handler goes on into the batch loop without suspending.
AllocateSlot(r, jitter, hourVariation, minuteVariation) ==
  /\ pc[r] = "alloc"
  /\ LET body == req[r]
         i == allocI[r]
         eventData == EventData(eventTitles[r], i)
         offsetDay == body.startDate.day
                        + daysOffset(i, body.count, totalDays(body)) + jitter
         est == body.earliestStartTime
         maxStartHour == Max(est, 24 - CeilDiv(eventData.duration, 60) - 1)
         finalHour == Max(est, Min(maxStartHour, est + hourVariation))
         eventStartDate == offsetDay * MINUTES_PER_DAY + finalHour * 60 + minuteVariation
         skip == ~body.estNumeric \/ ~eventData.numeric
         finalStart == OverlapLoop(eventStartDate, eventData.duration, 0,
                                   scheduledEvents[r], est)
         finalEnd == finalStart + eventData.duration
         event == CalendarEvent(eventData, finalStart, finalEnd)
         sched1 == IF skip THEN scheduledEvents[r]
                   ELSE Append(scheduledEvents[r],
                          [start |-> finalStart, end |-> finalEnd, title |-> event.summary])
         ce1 == IF skip THEN createdEvents[r]
                ELSE Append(createdEvents[r],
                       [event |-> event, duration |-> eventData.duration])
     IN IF OutOfRange(offsetDay)
        THEN \* console.error(..., {.., totalDayOffset, ..}): totalDayOffset is not
             \* declared, the ReferenceError lands in the handler's catch
             /\ pc' = [pc EXCEPT ![r] = "error"]
             /\ response' = [response EXCEPT ![r] = ErrorResponse(500)]
             /\ UNCHANGED <<allocVars, batchVars, storeCalls>>
        ELSE /\ allocI' = [allocI EXCEPT ![r] = i + 1]
             /\ scheduledEvents' = [scheduledEvents EXCEPT ![r] = sched1]
             /\ createdEvents' = [createdEvents EXCEPT ![r] = ce1]
             /\ skippedEvents' = [skippedEvents EXCEPT ![r] = IF skip THEN @ + 1 ELSE @]
             /\ IF i + 1 < body.count
                THEN UNCHANGED <<pc, response, batchVars, storeCalls>>
                ELSE BatchLoop(r, ce1, 0, << >>, 0, 0)
  /\ UNCHANGED <<req, contentVars, sharedVars, providerCalls, sendWindow, sleepLeft,
                 calendar, elapsed, mgmtVars, utilCall>>

\* ------------------------------------------------------------ batch execution
StoreOutcomes == {"created", "rejected", "malformed"}

OkEntry(r, ce, eventIndex) ==
  [id |-> StoreId(r, eventIndex), title |-> ce[eventIndex + 1].event.summary,
   start |-> ce[eventIndex + 1].event.start, end |-> ce[eventIndex + 1].event.end,
   duration |-> ce[eventIndex + 1].duration, error |-> FALSE]

\* A failed entry that does not carry the error flag.
FailedEntry_NoFlag(ce, eventIndex) ==
  [id |-> FailedId(eventIndex), title |-> ce[eventIndex + 1].event.summary,
   start |-> 0, end |-> 0,
   duration |-> ce[eventIndex + 1].duration, error |-> FALSE]

\* start and end of a failed entry are new Date().toISOString(): written 0.
FailedEntry(ce, eventIndex) ==
  [id |-> FailedId(eventIndex), title |-> ce[eventIndex + 1].event.summary,
   start |-> 0, end |-> 0,
   duration |-> ce[eventIndex + 1].duration, error |-> TRUE]

\* batchResults.forEach(...) over results 1..n: <<events, successfulCount,
\* failedCount, thrown>>.  A fulfilled result without the data read by the
\* callback makes the callback throw, which ends the forEach.
RECURSIVE ProcessResults(_, _, _, _, _, _)
ProcessResults(r, ce, i, outcomes, k, acc) ==
  IF k > Len(outcomes) THEN acc
  ELSE IF outcomes[k] = "created"
  THEN ProcessResults(r, ce, i, outcomes, k + 1,
         <<Append(acc[1], OkEntry(r, ce, i + k - 1)), acc[2] + 1, acc[3], FALSE>>)
  ELSE IF outcomes[k] = "rejected"
  THEN ProcessResults(r, ce, i, outcomes, k + 1,
         <<Append(acc[1], FailedEntry(ce, i + k - 1)), acc[2], acc[3] + 1, FALSE>>)
  ELSE <<acc[1], acc[2], acc[3], TRUE>>

\* catch: batch.forEach((_, batchIndex) => { failedCount++; events.push(failed) })
RECURSIVE MarkBatchFailed(_, _, _, _, _)
MarkBatchFailed(ce, i, n, k, acc) ==
  IF k > n THEN acc
  ELSE MarkBatchFailed(ce, i, n, k + 1,
         <<Append(acc[1], FailedEntry(ce, i + k - 1)), acc[2], acc[3] + 1, acc[4]>>)

\* Promise.allSettled(batchPromises) resolves: the results are processed, then
\* the cooldown starts, or the loop goes on (after a caught throw, or past the
\* last batch).
SettleBatch(r, outcomes) ==
  /\ pc[r] = "settling"
  /\ Len(outcomes) = inFlight[r]
  /\ LET ce == createdEvents[r]
         i == batchI[r]
         res == ProcessResults(r, ce, i, outcomes, 1,
                  <<events[r], successfulCount[r], failedCount[r], FALSE>>)
         fin == IF res[4] THEN MarkBatchFailed(ce, i, inFlight[r], 1, res) ELSE res
     IN /\ calendar' = calendar \cup
             {[id |-> StoreId(r, i + k - 1), event |-> ce[i + k].event] :
                k \in {m \in 1..Len(outcomes) : outcomes[m] = "created"}}
        /\ IF ~res[4] /\ i + BATCH_SIZE < Len(ce)
           THEN /\ pc' = [pc EXCEPT ![r] = "cooldown"]
                /\ sleepLeft' = [sleepLeft EXCEPT ![r] = DELAY_BETWEEN_BATCHES]
                /\ inFlight' = [inFlight EXCEPT ![r] = 0]
                /\ events' = [events EXCEPT ![r] = fin[1]]
                /\ successfulCount' = [successfulCount EXCEPT ![r] = fin[2]]
                /\ failedCount' = [failedCount EXCEPT ![r] = fin[3]]
                /\ UNCHANGED <<batchI, response, storeCalls>>
           ELSE /\ BatchLoop(r, ce, i + BATCH_SIZE, fin[1], fin[2], fin[3])
                /\ UNCHANGED sleepLeft
  /\ UNCHANGED <<req, contentVars, allocVars, sharedVars, providerCalls, sendWindow,
                 elapsed, mgmtVars, utilCall>>

\* The cooldown is over and the batch loop runs again at the same index.
CooldownDone_SameGroup(r) ==
  /\ pc[r] = "cooldown"
  /\ sleepLeft[r] = 0
  /\ BatchLoop(r, createdEvents[r], batchI[r], events[r],
               successfulCount[r], failedCount[r])
  /\ UNCHANGED <<req, contentVars, allocVars, sharedVars, providerCalls, sendWindow,
                 sleepLeft, calendar, elapsed, mgmtVars, utilCall>>

\* The cooldown between two batches is over: i += BATCH_SIZE, next batch.
CooldownDone(r) ==
  /\ pc[r] = "cooldown"
  /\ sleepLeft[r] = 0
  /\ BatchLoop(r, createdEvents[r], batchI[r] + BATCH_SIZE, events[r],
               successfulCount[r], failedCount[r])
  /\ UNCHANGED <<req, contentVars, allocVars, sharedVars, providerCalls, sendWindow,
                 sleepLeft, calendar, elapsed, mgmtVars, utilCall>>

\* ------------------------------------------------- listing and deleting events
LIST_WINDOW_DAYS == 30
DELETE_WINDOW_DAYS == 60

\* calendar.events.list({timeMin, timeMax}) with timeMin = now - windowDays and
\* timeMax = now + windowDays: the events that end after timeMin and start
\* before timeMax.
eventsList(cal, now, windowDays) ==
  {e \in cal : /\ e.event.end > now - windowDays * MINUTES_PER_DAY
               /\ e.event.start < now + windowDays * MINUTES_PER_DAY}

\* The events of the list are taken as they come, without the filter.
fcfEvents_Unfiltered(items) == items

\* .filter(event => event.extendedProperties?.private?.generated_by === "funny_calendar_filler")
fcfEvents(items) == {e \in items : e.event.generated_by = "funny_calendar_filler"}

\* GET /api/events/created, answered at minute `now` of the current day.
GetCreated(authorized, now, listOk) ==
  /\ listing.n < MaxGets
  /\ listing' =
       IF ~authorized THEN [n |-> listing.n + 1, status |-> 401, events |-> {}]
       ELSE IF ~listOk THEN [n |-> listing.n + 1, status |-> 500, events |-> {}]
       ELSE [n |-> listing.n + 1, status |-> 200,
             events |-> {[id |-> e.id, title |-> e.event.summary,
                          start |-> e.event.start, end |-> e.event.end] :
                           e \in fcfEvents(eventsList(calendar, now, LIST_WINDOW_DAYS))}]
  /\ UNCHANGED <<reqVars, contentVars, allocVars, batchVars, sharedVars, histVars,
                 sleepLeft, calendar, elapsed, deletion, utilCall>>

\* DELETE /api/events up to the dispatch of the deletions of the events found.
DeleteList(authorized, now, listOk) ==
  /\ deletion.pc # "deleting"
  /\ deletion.n < MaxDeletes
  /\ deletion' =
       IF ~authorized
       THEN [NoDeletion EXCEPT !.n = deletion.n + 1, !.pc = "done", !.status = 401]
       ELSE IF ~listOk
       THEN [NoDeletion EXCEPT !.n = deletion.n + 1, !.pc = "done", !.status = 500]
       ELSE [NoDeletion EXCEPT !.n = deletion.n + 1, !.pc = "deleting",
               !.found = fcfEvents(eventsList(calendar, now, DELETE_WINDOW_DAYS)),
               !.stored = calendar]
  /\ UNCHANGED <<reqVars, contentVars, allocVars, batchVars, sharedVars, histVars,
                 sleepLeft, calendar, elapsed, listing, utilCall>>

\* Promise.all(deletePromises) resolves: the store has failed the deletions in
\* failedDeletions and carried out the others; the answer is sent.
DeleteSettle(failedDeletions) ==
  /\ deletion.pc = "deleting"
  /\ failedDeletions \subseteq deletion.found
  /\ calendar' = calendar \ (deletion.found \ failedDeletions)
  /\ deletion' = [deletion EXCEPT
       !.pc = "done", !.status = 200,
       !.total_found = Cardinality(deletion.found),
       !.successfully_deleted = Cardinality(deletion.found \ failedDeletions),
       !.failed_deletions = Cardinality(failedDeletions)]
  /\ UNCHANGED <<reqVars, contentVars, allocVars, batchVars, sharedVars, histVars,
                 sleepLeft, elapsed, listing, utilCall>>

\* The owner of the primary calendar adds an event of their own to it: it has
\* no extendedProperties.private.generated_by.
UserEvent(n, start, end) ==
  [id |-> [failed |-> FALSE, owner |-> 0, n |-> n],
   event |-> [summary |-> <<"Dentist", 0>>, start |-> start, end |-> end,
              generated_by |-> "none", src |-> "user"]]

UserInsert(e) ==
  /\ e \notin calendar
  /\ calendar' = calendar \cup {e}
  /\ UNCHANGED <<reqVars, contentVars, allocVars, batchVars, sharedVars, histVars,
                 sleepLeft, elapsed, mgmtVars, utilCall>>

\* ------------------------------------------------------------ calendarUtils
\* Dates are minutes from 00:00 of day 0 in the server's time zone; day 0 is
\* taken to be a Sunday.
setHours(date, h) == (date \div MINUTES_PER_DAY) * MINUTES_PER_DAY + h * 60
getDay(date) == (date \div MINUTES_PER_DAY) % 7

\* start1 < end2 && start2 < end1
timeRangesOverlap(start1, end1, start2, end2) == start1 < end2 /\ start2 < end1

\* isWithinWorkingHours(date, {startHour, endHour, allowWeekends})
isWithinWorkingHours(date, constraints) ==
  LET hour == getHours(date)
      dayOfWeek == getDay(date)
      isWeekend == dayOfWeek = 0 \/ dayOfWeek = 6
  IN /\ hour >= constraints.startHour
     /\ hour < constraints.endHour
     /\ (constraints.allowWeekends \/ ~isWeekend)

\* What a call of calendarUtils.js has returned.
NoResult == [kind |-> "none", ok |-> FALSE, start |-> 0, end |-> 0]

\* isWithinWorkingHours called on its own.
CallWithinWorkingHours ==
  /\ utilCall.fn = "isWithinWorkingHours"
  /\ ~utilCall.done
  /\ utilCall' = [utilCall EXCEPT
       !.done = TRUE,
       !.result = [NoResult EXCEPT
          !.kind = "bool",
          !.ok = isWithinWorkingHours(utilCall.args.date,
                   [startHour |-> utilCall.args.startHour,
                    endHour |-> utilCall.args.endHour,
                    allowWeekends |-> utilCall.args.allowWeekends])]]
  /\ UNCHANGED <<reqVars, contentVars, allocVars, batchVars, sharedVars, histVars,
                 sleepLeft, calendar, elapsed, mgmtVars>>

\* findAvailableTimeSlot: workingHoursStart and workingHoursEnd of the call.
workingHoursStart(args) == setHours(args.date, args.startHour)
workingHoursEnd(args) ==
  IF args.endHour <= args.startHour
  THEN setHours(args.date + MINUTES_PER_DAY, args.endHour)
  ELSE setHours(args.date, args.endHour)

\* for (const event of sortedEvents) if (timeRangesOverlap(...)) hasOverlap = true
hasOverlap(scheduled, testDate, testEnd) ==
  \E k \in 1..Len(scheduled) :
    timeRangesOverlap(testDate, testEnd, scheduled[k].start, scheduled[k].end)

\* findAvailableTimeSlot up to its while loop: null for an invalid
\* requestedStart, otherwise testDate = workingHoursStart and attempts = 0.
SlotBegin ==
  /\ utilCall.fn = "findAvailableTimeSlot"
  /\ ~utilCall.done /\ utilCall.at = "call"
  /\ utilCall' =
       IF ~utilCall.args.valid
       THEN [utilCall EXCEPT !.done = TRUE, !.at = "returned",
                             !.result = [NoResult EXCEPT !.kind = "null"]]
       ELSE [utilCall EXCEPT !.at = "loop", !.attempts = 0,
                             !.testDate = workingHoursStart(utilCall.args)]
  /\ UNCHANGED <<reqVars, contentVars, allocVars, batchVars, sharedVars, histVars,
                 sleepLeft, calendar, elapsed, mgmtVars>>

\* One iteration of while (attempts < maxAttempts); randomGapMinutes is the
\* draw of Math.floor(Math.random() * 45) + 15.
SlotAttempt(randomGapMinutes) ==
  /\ utilCall.fn = "findAvailableTimeSlot"
  /\ utilCall.at = "loop"
  /\ utilCall.attempts < utilCall.args.maxAttempts
  /\ LET args == utilCall.args
         testDate == utilCall.testDate
         testEnd == testDate + args.duration
         moved == testDate + randomGapMinutes
     IN utilCall' =
          IF /\ testDate >= workingHoursStart(args)
             /\ testEnd <= workingHoursEnd(args)
             /\ ~hasOverlap(args.scheduled, testDate, testEnd)
          THEN [utilCall EXCEPT
                  !.done = TRUE, !.at = "returned",
                  !.result = [NoResult EXCEPT !.kind = "slot", !.ok = TRUE,
                                              !.start = testDate, !.end = testEnd]]
          ELSE [utilCall EXCEPT
                  !.attempts = @ + 1,
                  !.testDate = IF moved > workingHoursEnd(args)
                               THEN setHours(moved + MINUTES_PER_DAY, args.startHour)
                               ELSE moved]
  /\ UNCHANGED <<reqVars, contentVars, allocVars, batchVars, sharedVars, histVars,
                 sleepLeft, calendar, elapsed, mgmtVars>>

\* The loop has used up its attempts: return { start: requestedStart, end: requestedEnd }.
SlotGiveUp ==
  /\ utilCall.fn = "findAvailableTimeSlot"
  /\ utilCall.at = "loop"
  /\ utilCall.attempts >= utilCall.args.maxAttempts
  /\ utilCall' = [utilCall EXCEPT
       !.done = TRUE, !.at = "returned",
       !.result = [NoResult EXCEPT
          !.kind = "original",
          !.start = utilCall.args.date,
          !.end = utilCall.args.date + utilCall.args.duration]]
  /\ UNCHANGED <<reqVars, contentVars, allocVars, batchVars, sharedVars, histVars,
                 sleepLeft, calendar, elapsed, mgmtVars>>

\* formatDuration(minutes): the printed text as its list of <<number, unit>>
\* parts, e.g. `${days}d ${hours}h` is << <<days, "d">>, <<hours, "h">> >>.
formatDuration(minutes) ==
  IF minutes < 60
  THEN << <<minutes, "min">> >>
  ELSE IF minutes < MINUTES_PER_DAY
  THEN LET hours == minutes \div 60
           mins == minutes % 60
       IN IF mins > 0 THEN << <<hours, "h">>, <<mins, "m">> >> ELSE << <<hours, "h">> >>
  ELSE LET days == minutes \div MINUTES_PER_DAY
           remainingMinutes == minutes % MINUTES_PER_DAY
           hours == remainingMinutes \div 60
           mins == remainingMinutes % 60
       IN IF hours > 0 /\ mins > 0
          THEN << <<days, "d">>, <<hours, "h">>, <<mins, "m">> >>
          ELSE IF hours > 0
          THEN << <<days, "d">>, <<hours, "h">> >>
          ELSE << <<days, "d">> >>

\* formatDuration called on its own.
CallFormatDuration ==
  /\ utilCall.fn = "formatDuration"
  /\ ~utilCall.done
  /\ utilCall' = [utilCall EXCEPT !.done = TRUE,
                                  !.result = formatDuration(utilCall.args)]
  /\ UNCHANGED <<reqVars, contentVars, allocVars, batchVars, sharedVars, histVars,
                 sleepLeft, calendar, elapsed, mgmtVars>>

\* ------------------------------------------------------------------- time
Sleeping(r) == pc[r] \in {"ratewait", "sleep429", "backoff", "cooldown"}

\* d seconds pass; no sleep is cut short.  The allocation loop is synchronous
\* code: no time is let pass in the middle of it.
Tick(d) ==
  /\ d > 0
  /\ \A r \in Reqs : pc[r] # "alloc"
  /\ \A r \in Reqs : Sleeping(r) /\ sleepLeft[r] > 0 => d <= sleepLeft[r]
  /\ sleepLeft' = [r \in Reqs |-> Max(0, sleepLeft[r] - d)]
  /\ windowAge' = Min(windowAge + d, RATE_WINDOW)
  /\ REQUEST_CACHE' = [k \in DOMAIN REQUEST_CACHE |->
        [REQUEST_CACHE[k] EXCEPT !.age = Min(@ + d, CACHE_TTL)]]
  /\ elapsed' = Min(elapsed + d, CACHE_TTL)
  /\ sendWindow' = [sendWindow EXCEPT !.age = Min(@ + d, RATE_WINDOW)]
  /\ UNCHANGED <<reqVars, contentVars, allocVars, batchVars, requestCount,
                 providerCalls, storeCalls, calendar, mgmtVars, utilCall>>

\* ------------------------------------------------------------------ inputs
Body(auth, sd, ed, count, userInput, est, estNumeric) ==
  [authorized |-> auth, startDate |-> sd, endDate |-> ed, count |-> count,
   userInput |-> userInput, earliestStartTime |-> est, estNumeric |-> estNumeric]

\* Requests the validation turns down.
BadBodies ==
  { Body(FALSE, Date(1), Date(2), 2, Str_gym, 8, TRUE),
    Body(FALSE, NoDate, Date(2), 2, Str_gym, 8, TRUE),
    Body(TRUE, NoDate, Date(2), 2, Str_gym, 8, TRUE),
    Body(TRUE, Date(1), NoDate, 2, Str_gym, 8, TRUE),
    Body(TRUE, NoDate, NoDate, 5, Str_gym, 8, TRUE),
    Body(TRUE, BadDate, Date(2), 2, Str_gym, 8, TRUE),
    Body(TRUE, Date(8), Date(1), 5, Str_gym, 8, TRUE),
    Body(TRUE, Date(1), Date(8), 0, Str_gym, 8, TRUE),
    Body(TRUE, Date(1), Date(8), MAX_COUNT + 1, Str_gym, 8, TRUE),
    Body(TRUE, Date(1), Date(8), 50, Str_gym, 8, TRUE) }

\* Requests that pass the validation.
GoodBodies ==
  { Body(TRUE, Date(1), Date(1), 1, Str_gym, 8, TRUE),
    Body(TRUE, Date(1), Date(3), 2, Str_GymSp, 8, TRUE),
    Body(TRUE, Date(1), Date(3), 2, Str_empty, 8, TRUE),
    Body(TRUE, Date(2), Date(2), 2, Str_study, 23, TRUE),
    Body(TRUE, Date(1), Date(2), 2, Str_work, 8, FALSE),
    Body(TRUE, Date(0), Date(1), 2, Str_gym, 8, TRUE),
    Body(TRUE, Date(ONE_YEAR_DAYS), Date(ONE_YEAR_DAYS), 1, Str_gym, 8, TRUE) }
  \cup { Body(TRUE, Date(1), Date(2), c, Str_work, 8, TRUE) : c \in 3..MaxCount }

Bodies == BadBodies \cup GoodBodies

\* Math.random() < 0.3, Math.floor(Math.random() * 4) - 1, Math.floor(Math.random() * 60)
Jitters == {0, 1}
HourVariations == -1..2
MinuteStep == 30
MinuteVariations == {m \in 0..59 : m % MinuteStep = 0}

\* Durations the provider's items carry (0: no duration).
ProviderDurations == {0, 120}
ProviderItems ==
  {Item("AI Event", 0, d, TRUE, "provider") : d \in ProviderDurations}
    \cup {Item("AI Event", 0, 60, FALSE, "provider")}
ProviderLists == UNION {[1..n -> ProviderItems] : n \in 1..MaxProviderItems}

\* --------------------------------------------------------------- behaviours
AllOutcomes == UNION {[1..n -> StoreOutcomes] : n \in 1..BATCH_SIZE}
AllCreated == {[k \in 1..n |-> "created"] : n \in 1..BATCH_SIZE}

\* Time advances to the next timer that is due; when no timer is pending it
\* advances by one of the given idle steps.
PendingSleeps == {sleepLeft[r] : r \in {q \in Reqs : Sleeping(q) /\ sleepLeft[q] > 0}}
TickSteps(Idle) ==
  IF PendingSleeps # {}
  THEN {CHOOSE d \in PendingSleeps : \A e \in PendingSleeps : d <= e}
  ELSE Idle

\* Content resolution of request r when the provider fails on every call, the
\* failures taken from the given kinds and retry_after values.
FailingContentStep(r, Kinds, RAs) ==
  \/ GenEnter(r)
  \/ \E kind \in Kinds, ra \in RAs : ProviderReply(r, kind, << >>, ra)
  \/ Retry(r)

\* Content resolution of request r, the provider's replies taken from the
\* given failure kinds and item lists.
ContentStep(r, Kinds, Lists) ==
  \/ FailingContentStep(r, Kinds, {0})
  \/ \E items \in Lists : ProviderReply(r, "ok", items, 0)

\* Content resolution of request r when every provider call is answered at
\* once, with a list or with a body that cannot be parsed (no retry).
AnsweredContentStep(r, Lists) ==
  \/ GenEnter(r)
  \/ ProviderReply(r, "malformed", << >>, 0)
  \/ \E items \in Lists : ProviderReply(r, "ok", items, 0)

\* Allocation and batch execution of request r, the random draws and the
\* store's outcomes taken from the given sets.
PlaceStep(r, Js, Hs, Ms, Outs) ==
  \/ \E j \in Js, h \in Hs, m \in Ms : AllocateSlot(r, j, h, m)
  \/ \E outcomes \in Outs : SettleBatch(r, outcomes)

\* Spec: one request, every kind of body, provider list and store outcome; the
\* allocation draws only the day jitter.
Next ==
  \/ \E body \in Bodies : ReceiveRequest(1, body)
  \/ ContentStep(1, {"timeout", "malformed"}, ProviderLists)
  \/ PlaceStep(1, Jitters, {0}, {0}, AllOutcomes)
  \/ CooldownDone(1)
  \/ \E d \in TickSteps({}) : Tick(d)

Spec == Init /\ [][Next]_vars

\* SpecAlloc: one request with every random draw of the allocation loop; the
\* store creates every event.
AllocBodies ==
  { Body(TRUE, Date(1), Date(1), 1, Str_gym, 8, TRUE),
    Body(TRUE, Date(1), Date(3), 2, Str_gym, 8, TRUE),
    Body(TRUE, Date(2), Date(2), 2, Str_study, 23, TRUE),
    Body(TRUE, Date(1), Date(2), 3, Str_work, 8, TRUE),
    Body(TRUE, Date(1), Date(1), 3, Str_study, 23, TRUE),
    Body(TRUE, Date(ONE_YEAR_DAYS - 1), Date(ONE_YEAR_DAYS - 1), 1, Str_study, 23, TRUE) }

AllocLists == ProviderLists \cup {<<Item("AI Event", 0, 180, TRUE, "provider")>>}

NextAlloc ==
  \/ \E body \in AllocBodies : ReceiveRequest(1, body)
  \/ AnsweredContentStep(1, AllocLists)
  \/ PlaceStep(1, Jitters, HourVariations, MinuteVariations, AllCreated)

SpecAlloc == Init /\ [][NextAlloc]_vars

\* SpecRetry: one request against a provider that answers with any failure or a
\* list and whose 429 replies ask for a retry after 1 ms; slots and store
\* outcomes are fixed.
RetryBodies ==
  { Body(TRUE, Date(1), Date(3), 2, Str_gym, 8, TRUE),
    Body(TRUE, Date(1), Date(1), 1, Str_work, 8, TRUE) }

NextRetry ==
  \/ \E body \in RetryBodies : ReceiveRequest(1, body)
  \/ FailingContentStep(1, FailureKinds, {1})
  \/ \E items \in ProviderLists : ProviderReply(1, "ok", items, 0)
  \/ SendAfterWait(1)
  \/ PlaceStep(1, {0}, {0}, {0}, AllCreated)
  \/ \E d \in TickSteps({}) : Tick(d)

SpecRetry == Init /\ [][NextRetry]_vars

\* SpecDown: the provider fails on every call.  The event loop runs every
\* continuation that is ready, timers fire, and every call is answered.
NextDown ==
  \/ \E body \in RetryBodies : ReceiveRequest(1, body)
  \/ FailingContentStep(1, FailureKinds, {0})
  \/ PlaceStep(1, {0}, {0}, {0}, AllCreated)
  \/ \E d \in TickSteps({}) : Tick(d)

SpecDown ==
  /\ Init /\ [][NextDown]_vars
  /\ WF_vars(FailingContentStep(1, FailureKinds, {0}))
  /\ WF_vars(PlaceStep(1, {0}, {0}, {0}, AllCreated))
  /\ WF_vars(\E d \in TickSteps({}) : Tick(d))

\* SpecCache: requests processed concurrently, with descriptions that differ
\* and normalise to the same key; a provider call fails or returns a list
\* shorter or longer than the count; between timers, time advances by one
\* cache lifetime or by one second less.
CacheBodies ==
  { Body(TRUE, Date(1), Date(1), 2, Str_gym, 8, TRUE),
    Body(TRUE, Date(1), Date(1), 2, Str_GymSp, 8, TRUE) }
CacheLists ==
  { <<Item("AI Event", 0, 45, TRUE, "provider")>>,
    <<Item("AI Event", 0, 45, TRUE, "provider"), Item("AI Event", 1, 30, TRUE, "provider"),
      Item("AI Event", 2, 120, TRUE, "provider")>> }

NextCache ==
  \/ \E r \in Reqs, body \in CacheBodies : ReceiveRequest(r, body)
  \/ \E r \in Reqs : AnsweredContentStep(r, CacheLists)
  \/ \E r \in Reqs : PlaceStep(r, {0}, {0}, {0}, AllCreated)
  \/ \E d \in TickSteps({CACHE_TTL - 1, CACHE_TTL}) : Tick(d)

SpecCache == Init /\ [][NextCache]_vars

\* SpecKeys: concurrent requests under two different keys, one of them
\* written in two ways; the provider answers each call with one of two lists.
KeyBodies ==
  { Body(TRUE, Date(1), Date(1), 1, Str_gym, 8, TRUE),
    Body(TRUE, Date(1), Date(1), 1, Str_GymSp, 8, TRUE),
    Body(TRUE, Date(1), Date(1), 1, Str_work, 8, TRUE) }
KeyLists ==
  { <<Item("AI Event", 0, 45, TRUE, "provider")>>,
    <<Item("AI Event", 1, 30, TRUE, "provider"), Item("AI Event", 2, 120, TRUE, "provider")>> }

NextKeys ==
  \/ \E r \in Reqs, body \in KeyBodies : ReceiveRequest(r, body)
  \/ \E r \in Reqs : AnsweredContentStep(r, KeyLists)
  \/ \E r \in Reqs : PlaceStep(r, {0}, {0}, {0}, AllCreated)
  \/ \E d \in TickSteps({CACHE_TTL}) : Tick(d)

SpecKeys == Init /\ [][NextKeys]_vars

\* SpecManage: one request places events near to or far from today, the store
\* creates or rejects each of them; the created events are listed and deleted
\* at the beginning or at the end of the current day.
ManageBodies ==
  { Body(TRUE, Date(1), Date(1), 1, Str_gym, 8, TRUE),
    Body(TRUE, Date(29), Date(30), 2, Str_work, 8, TRUE),
    Body(TRUE, Date(59), Date(60), 2, Str_work, 8, TRUE),
    Body(TRUE, Date(200), Date(200), 1, Str_study, 8, TRUE) }
ClockMinutes == {1, MINUTES_PER_DAY - 1}
CreatedOrRejected == UNION {[1..n -> {"created", "rejected"}] : n \in 1..BATCH_SIZE}

NextManage ==
  \/ \E body \in ManageBodies : ReceiveRequest(1, body)
  \/ AnsweredContentStep(1, CacheLists)
  \/ PlaceStep(1, Jitters, {0}, {0}, CreatedOrRejected)
  \/ \E a \in BOOLEAN, now \in ClockMinutes, ok \in BOOLEAN : GetCreated(a, now, ok)
  \/ \E a \in BOOLEAN, now \in ClockMinutes, ok \in BOOLEAN : DeleteList(a, now, ok)
  \/ \E failedDeletions \in SUBSET deletion.found : DeleteSettle(failedDeletions)

SpecManage == Init /\ [][NextManage]_vars

\* SpecOwned: the calendar also holds events of its owner, inside the windows
\* the two handlers list.
OwnedBodies ==
  { Body(TRUE, Date(1), Date(1), 1, Str_gym, 8, TRUE),
    Body(TRUE, Date(29), Date(30), 2, Str_work, 8, TRUE) }
UserEvents ==
  { UserEvent(1, MINUTES_PER_DAY + 600, MINUTES_PER_DAY + 660),
    UserEvent(2, 29 * MINUTES_PER_DAY + 540, 29 * MINUTES_PER_DAY + 600) }

NextOwned ==
  \/ \E body \in OwnedBodies : ReceiveRequest(1, body)
  \/ AnsweredContentStep(1, CacheLists)
  \/ PlaceStep(1, Jitters, {0}, {0}, CreatedOrRejected)
  \/ \E e \in UserEvents : UserInsert(e)
  \/ \E a \in BOOLEAN, now \in ClockMinutes, ok \in BOOLEAN : GetCreated(a, now, ok)
  \/ \E a \in BOOLEAN, now \in ClockMinutes, ok \in BOOLEAN : DeleteList(a, now, ok)
  \/ \E failedDeletions \in SUBSET deletion.found : DeleteSettle(failedDeletions)

SpecOwned == Init /\ [][NextOwned]_vars

\* SpecHours: isWithinWorkingHours and findAvailableTimeSlot called on their
\* own, with windows that end on the same day and windows that end on the
\* next day, and with scheduled sets that leave room or block every slot.
UtilCall(fn, date, valid, duration, scheduled, startHour, endHour, allowWeekends, maxAtt) ==
  [fn |-> fn, done |-> FALSE, at |-> "call", testDate |-> 0, attempts |-> 0,
   result |-> NoResult,
   args |-> [date |-> date, valid |-> valid, duration |-> duration,
             scheduled |-> scheduled, startHour |-> startHour, endHour |-> endHour,
             allowWeekends |-> allowWeekends, maxAttempts |-> maxAtt]]

At(day, hour, minute) == day * MINUTES_PER_DAY + hour * 60 + minute
WorkingHours == {<<8, 21>>, <<8, 1>>, <<22, 6>>, <<8, 8>>}
DEFAULT_MAX_ATTEMPTS == 200      \* scheduling.maxAttempts

HoursCalls ==
  {UtilCall("isWithinWorkingHours", At(day, hour, 30), TRUE, 0, << >>,
            wh[1], wh[2], weekends, 0) :
     day \in {1, 6}, hour \in {0, 1, 5, 7, 8, 12, 20, 21, 22, 23},
     wh \in WorkingHours, weekends \in BOOLEAN}

ScheduledSets ==
  { << >>,
    <<[start |-> At(1, 8, 0), end |-> At(1, 9, 0)]>>,
    <<[start |-> At(1, 12, 0), end |-> At(2, 1, 0)],
      [start |-> At(1, 8, 0), end |-> At(1, 12, 0)]>>,
    <<[start |-> At(0, 0, 0), end |-> At(3, 0, 0)]>> }

SlotCalls ==
  {UtilCall("findAvailableTimeSlot", date, TRUE, duration, scheduled,
            wh[1], wh[2], TRUE, DEFAULT_MAX_ATTEMPTS) :
     date \in {At(1, 10, 0), At(1, 23, 30)}, duration \in {60, 120},
     scheduled \in ScheduledSets, wh \in {<<8, 1>>, <<8, 21>>}}
  \cup {UtilCall("findAvailableTimeSlot", 0, FALSE, 60, << >>, 8, 1, TRUE,
                 DEFAULT_MAX_ATTEMPTS)}

RandomGaps == {15, 59}

InitHours == Started /\ utilCall \in HoursCalls \cup SlotCalls

NextHours ==
  \/ CallWithinWorkingHours
  \/ SlotBegin
  \/ \E gap \in RandomGaps : SlotAttempt(gap)
  \/ SlotGiveUp

SpecHours == InitHours /\ [][NextHours]_vars

\* SpecFormat: formatDuration called on its own with every number of minutes
\* up to MaxMinutes.
FormatCalls ==
  {[fn |-> "formatDuration", args |-> minutes, done |-> FALSE, result |-> << >>] :
     minutes \in 0..MaxMinutes}

InitFormat == Started /\ utilCall \in FormatCalls

NextFormat == CallFormatDuration

SpecFormat == InitFormat /\ [][NextFormat]_vars

\* ===================================================================== claims
Terminal == {"done", "rejected", "error"}
Arrived(r) == pc[r] # "idle"

\* The inputs the specification names as Rejected-input.
MissingDates(body) == body.startDate.kind = "missing" \/ body.endDate.kind = "missing"
InvertedRange(body) ==
  /\ body.startDate.kind = "date" /\ body.endDate.kind = "date"
  /\ body.endDate.day < body.startDate.day
CountOutOfBounds(body) == body.count < 1 \/ body.count > 30
RejectedInput(body) == MissingDates(body) \/ InvertedRange(body) \/ CountOutOfBounds(body)
WellFormed(body) ==
  /\ body.authorized
  /\ body.startDate.kind = "date" /\ body.endDate.kind = "date"
  /\ ~RejectedInput(body)

\* C1: every request that passed the validation and was answered with a
\* summary has successful + failed = requested count.
C1_CountsAddUp ==
  \A r \in Reqs :
    pc[r] = "done" => response[r].successful + response[r].failed = req[r].count

\* C2: the summary's list of events has one entry per requested event.
C2_ListIsCountComplete ==
  \A r \in Reqs : pc[r] = "done" => Len(response[r].created) = req[r].count

\* C4 (as claimed): a request with a missing date, an inverted range or a count
\* outside 1..30 is answered with status 400.
C4_Rejected400 ==
  \A r \in Reqs : Arrived(r) /\ RejectedInput(req[r]) => response[r].status = 400

\* C4 (amended): the same, for a request that arrives while the token file
\* exists; without the token file the answer is 401.
C4_Rejected400WhenAuthorized ==
  \A r \in Reqs :
    Arrived(r) /\ RejectedInput(req[r]) =>
      /\ pc[r] = "rejected"
      /\ response[r].status = (IF req[r].authorized THEN 400 ELSE 401)

C4_Witness ==
  \E r \in Reqs :
    /\ pc[r] = "rejected" /\ response[r].status = 400
    /\ req[r].authorized /\ req[r].count = 50

\* C5: a request the validation turns down makes no provider call and no store
\* call and leaves the cache and the rate-limit counter as they were.
C5_RejectedNoSideEffects ==
  (Arrived(1) /\ (pc[1] = "rejected" \/ RejectedInput(req[1]))) =>
    /\ providerCalls[1] = 0
    /\ storeCalls[1] = << >>
    /\ calendar = {}
    /\ REQUEST_CACHE = << >>
    /\ requestCount = 0

C5_Witness ==
  /\ pc[1] = "rejected" /\ req[1].authorized /\ InvertedRange(req[1])
  /\ providerCalls[1] = 0

\* C6: a request with an empty description is rejected.
C6_EmptyDescriptionRejected ==
  \A r \in Reqs : Arrived(r) /\ req[r].userInput = Str_empty => pc[r] = "rejected"

\* C7: a request that passed the validation is never answered with a hard
\* error.
C7_NoHardErrorAfterValidation ==
  \A r \in Reqs : Arrived(r) /\ WellFormed(req[r]) => pc[r] # "error"

\* The intervals of the events handed to the calendar store.
Handed(r) == IF pc[r] \in {"settling", "cooldown", "done"} THEN createdEvents[r] ELSE << >>

\* C3: no two intervals that one request hands to the calendar store overlap.
C3_NoOverlap ==
  \A r \in Reqs : \A a, b \in 1..Len(Handed(r)) :
    a # b =>
      \/ Handed(r)[a].event.end <= Handed(r)[b].event.start
      \/ Handed(r)[b].event.end <= Handed(r)[a].event.start

\* C8: when the provider fails on every call, a request that entered content
\* resolution reaches its final summary.
C8_TerminatesWhenProviderDown ==
  \A r \in Reqs : (pc[r] = "gen") ~> (pc[r] = "done")

\* C9: one content request sends at most 4 requests to the provider.
C9_AtMostFourCalls == \A r \in Reqs : providerCalls[r] <= 4

\* The key the specification gives a request: the case-normalised, trimmed
\* description together with the count.
NormalizedKey(body) == <<trim(toLowerCase(body.userInput)), body.count>>
SameKey(r1, r2) ==
  /\ Arrived(r1) /\ Arrived(r2) /\ NormalizedKey(req[r1]) = NormalizedKey(req[r2])

\* C10 (as claimed): two requests with the same normalised description and
\* count, issued less than the TTL apart, send at most one provider request
\* in total.
C10_AtMostOneCallInTotal ==
  \A r1, r2 \in Reqs :
    (r1 # r2 /\ SameKey(r1, r2) /\ elapsed < CACHE_TTL) =>
      providerCalls[r1] + providerCalls[r2] <= 1

FreshEntryFor(r) ==
  /\ NormalizedKey(req[r]) \in DOMAIN REQUEST_CACHE
  /\ REQUEST_CACHE[NormalizedKey(req[r])].age < CACHE_TTL

\* C10 (amended): a request whose cache check finds an entry stored under its
\* normalised key less than the TTL ago sends no provider request and goes on
\* to the allocation with the cached items.
C10_FreshEntryNoProviderCall ==
  [][\A r \in Reqs :
       (pc[r] = "gen" /\ FreshEntryFor(r) /\ pc'[r] # "gen") =>
         /\ providerCalls'[r] = providerCalls[r]
         /\ pc'[r] \in {"alloc", "settling", "done", "error"}
         /\ requestCount' = requestCount]_vars

C10_Witness ==
  \E r1, r2 \in Reqs :
    /\ r1 # r2 /\ SameKey(r1, r2) /\ req[r1].userInput # req[r2].userInput
    /\ elapsed < CACHE_TTL
    /\ providerCalls[r1] = 1 /\ providerCalls[r2] = 0
    /\ pc[r2] = "done"
    /\ \A k \in 1..Len(eventTitles[r2]) : eventTitles[r2][k].src = "provider"

\* The store rejects exactly one insert of a group of three and creates the
\* other two.
OneRejectedOfThree(outcomes) ==
  /\ Len(outcomes) = BATCH_SIZE
  /\ \E k \in 1..BATCH_SIZE :
       /\ outcomes[k] = "rejected"
       /\ \A m \in (1..BATCH_SIZE) \ {k} : outcomes[m] = "created"

\* C11: when the store fails for exactly one task of a group of three, that
\* task's outcome is Failed and the other two are Created (each task gets one
\* entry, in order, with its own title); when more tasks remain, the handler
\* enters the cooldown and, when the cooldown ends, dispatches the next group.
C11_OneFailureSparesSiblings ==
  [][\A r \in Reqs :
       /\ \A outcomes \in AllOutcomes :
            (SettleBatch(r, outcomes) /\ OneRejectedOfThree(outcomes)) =>
              LET n == Len(events[r])
                  ce == createdEvents[r]
                  i == batchI[r]
              IN /\ Len(events'[r]) = n + BATCH_SIZE
                 /\ \A k \in 1..BATCH_SIZE :
                      /\ events'[r][n + k].error = (outcomes[k] = "rejected")
                      /\ events'[r][n + k].title = ce[i + k].event.summary
                      /\ outcomes[k] = "created" =>
                           \E e \in calendar' :
                             /\ e.id = events'[r][n + k].id
                             /\ e.event = ce[i + k].event
                 /\ successfulCount'[r] = successfulCount[r] + 2
                 /\ failedCount'[r] = failedCount[r] + 1
                 /\ IF i + BATCH_SIZE < Len(ce)
                    THEN pc'[r] = "cooldown" /\ sleepLeft'[r] = DELAY_BETWEEN_BATCHES
                    ELSE pc'[r] = "done"
       /\ (pc[r] = "cooldown" /\ pc'[r] # "cooldown") =>
            /\ sleepLeft[r] = 0
            /\ pc'[r] = "settling"
            /\ batchI'[r] = batchI[r] + BATCH_SIZE
            /\ inFlight'[r] = Min(BATCH_SIZE, Len(createdEvents[r]) - batchI'[r])
            /\ inFlight'[r] >= 1]_vars

\* The second group is in flight after a first group with one failed task.
C11_Witness ==
  \E r \in Reqs :
    /\ pc[r] = "settling" /\ batchI[r] = BATCH_SIZE
    /\ Len(events[r]) = BATCH_SIZE
    /\ successfulCount[r] = 2 /\ failedCount[r] = 1
    /\ Cardinality({k \in 1..BATCH_SIZE : events[r][k].error}) = 1
    /\ Cardinality({e \in calendar : e.id.owner = r}) = 2

\* The content item the k-th allocated interval of request r is paired with:
\* an item of the resolved list (or its default replacement) with the title
\* and the duration recorded with the interval.
PairedItem(r, k) ==
  \E i \in 0..(req[r].count - 1) :
    LET item == EventData(eventTitles[r], i)
    IN /\ item.title = createdEvents[r][k].event.summary
       /\ item.duration = createdEvents[r][k].duration

C13_WithinRequestedRange ==
  \A r \in Reqs : \A k \in 1..Len(createdEvents[r]) :
    LET e == createdEvents[r][k].event
    IN /\ e.start >= req[r].startDate.day * MINUTES_PER_DAY
       /\ e.end <= (req[r].endDate.day + 1) * MINUTES_PER_DAY

\* C14: a request with count = 1 and startDate = endDate that has left the
\* allocation loop has exactly one interval, and the interval lies in the
\* working-hour window of that day: from earliestStartTime to 1 AM of the
\* following night.
C14_SingleDaySingleInterval ==
  \A r \in Reqs :
    (/\ pc[r] \in {"settling", "cooldown", "done"}
     /\ req[r].count = 1 /\ req[r].startDate.day = req[r].endDate.day) =>
      /\ Len(createdEvents[r]) = 1
      /\ LET e == createdEvents[r][1].event
             day == req[r].startDate.day
         IN /\ e.start >= day * MINUTES_PER_DAY + req[r].earliestStartTime * 60
            /\ e.end <= (day + 1) * MINUTES_PER_DAY + 60

\* What the listing returns for a stored event.
ListedEntry(e) ==
  [id |-> e.id, title |-> e.event.summary, start |-> e.event.start, end |-> e.event.end]

\* C15: when GET /api/events/created answers with a list, the list holds
\* every event that POST /api/events has created in the store, with the same
\* title, start and end.
C15_CreatedEventsAreListed ==
  [][(listing'.n # listing.n /\ listing'.status = 200) =>
       \A e \in calendar :
         e.event.generated_by = "funny_calendar_filler" =>
           ListedEntry(e) \in listing'.events]_vars

\* C18: when DELETE /api/events completes with no failed deletion, none of
\* the events with the ownership tag that the store held when the handler
\* listed it remains in the store.
C18_DeleteLeavesNoOwnedEvent ==
  [][(deletion.pc = "deleting" /\ deletion'.pc = "done"
        /\ deletion'.status = 200 /\ deletion'.failed_deletions = 0) =>
       \A e \in calendar' \cap deletion.stored :
         e.event.generated_by # "funny_calendar_filler"]_vars

\* C16: at most 60 provider requests are sent within one minute, whichever
\* requests send them and whether or not they waited for the window to reset.
C16_AtMostSixtyPerMinute == sendWindow.sends <= MAX_REQUESTS_PER_MINUTE

ContentResolved(r) == pc[r] \in {"alloc", "settling", "cooldown", "done", "error"}

C19_ExhaustedIsSkipped ==
  [][\A r \in Reqs :
       (/\ pc[r] = "alloc" /\ allocI'[r] = allocI[r] + 1
        /\ Len(scheduledEvents'[r]) > Len(scheduledEvents[r])) =>
         LET new == scheduledEvents'[r][Len(scheduledEvents'[r])]
         IN FirstOverlap(scheduledEvents[r], new.start, new.end) = 0]_vars

\* The processing of the group's results throws: one of them lacks the data
\* the handler reads.
GroupHandlingFails(outcomes) == \E k \in 1..Len(outcomes) : outcomes[k] = "malformed"

\* C20: when the handling of a whole group fails, every task of the group
\* gets exactly one outcome, a Failed one, the request does not fail, and the
\* remaining groups are still executed.
C20_FailedGroupCountedOnce ==
  [][\A r \in Reqs : \A outcomes \in AllOutcomes :
       (SettleBatch(r, outcomes) /\ GroupHandlingFails(outcomes)) =>
         LET n == Len(events[r])
             g == inFlight[r]
             ce == createdEvents[r]
             i == batchI[r]
         IN /\ Len(events'[r]) = n + g
            /\ \A k \in 1..g :
                 /\ events'[r][n + k].error
                 /\ events'[r][n + k].title = ce[i + k].event.summary
            /\ failedCount'[r] = failedCount[r] + g
            /\ successfulCount'[r] = successfulCount[r]
            /\ pc'[r] # "error"
            /\ (i + BATCH_SIZE < Len(ce)) => pc'[r] \in {"settling", "cooldown"}]_vars

\* C21: the next group of a request is dispatched only at the end of a
\* cooldown of 2 s that began when the earlier group was settled, whatever the
\* outcome of the earlier group; no cooldown begins after the last group.
C21_CooldownBetweenGroups ==
  [][\A r \in Reqs :
       /\ (pc'[r] = "settling" /\ batchI'[r] > batchI[r]) =>
            (pc[r] = "cooldown" /\ sleepLeft[r] = 0)
       /\ (pc[r] # "cooldown" /\ pc'[r] = "cooldown") =>
            /\ sleepLeft'[r] = DELAY_BETWEEN_BATCHES
            /\ batchI[r] + BATCH_SIZE < Len(createdEvents[r])
       /\ (pc[r] = "cooldown" /\ pc'[r] = "cooldown") => sleepLeft'[r] < sleepLeft[r]]_vars

\* C22: at most BATCH_SIZE store inserts of a request are in flight; while a
\* group is in flight no task of a later group has been dispatched, and no
\* insert is in flight unless the handler awaits the settling of a group.
C22_GroupsAreSequential ==
  \A r \in Reqs :
    /\ inFlight[r] <= BATCH_SIZE
    /\ pc[r] # "settling" => inFlight[r] = 0
    /\ pc[r] \in {"settling", "cooldown"} =>
         /\ Len(storeCalls[r]) = Len(createdEvents[r])
         /\ \A k \in 1..Len(createdEvents[r]) :
              k > batchI[r] + BATCH_SIZE => storeCalls[r][k] = 0
    /\ pc[r] = "settling" =>
         inFlight[r] = Cardinality({k \in 1..Len(createdEvents[r]) :
                                      k > batchI[r] /\ storeCalls[r][k] > 0})

\* The second group is in flight: one task, after the three of the first group.
C22_Witness ==
  \E r \in Reqs :
    /\ pc[r] = "settling" /\ batchI[r] = BATCH_SIZE /\ inFlight[r] = 1
    /\ Len(createdEvents[r]) = BATCH_SIZE + 1
    /\ storeCalls[r][BATCH_SIZE + 1] = 1

C24_BackoffSchedule ==
  [][\A r \in Reqs :
       (pc[r] = "fetch" /\ pc'[r] \in {"sleep429", "backoff"}) =>
         /\ retryCount[r] < MAX_RETRIES
         /\ sleepLeft'[r] = Pow2(retryCount[r])]_vars

\* C25: a provider reply that cannot be parsed or that holds no item ends
\* the content resolution of the request at once: no retry is scheduled, the
\* content items are those of the fallback generator, and the request makes
\* no provider call afterwards.
C25_UnusableReplyFallsBack ==
  [][\A r \in Reqs :
       /\ \A kind \in {"malformed", "empty"} :
            ProviderReply(r, kind, << >>, 0) =>
              /\ pc'[r] = "alloc"
              /\ eventTitles'[r] = generateFallbackEvents(req[r].userInput, req[r].count)
              /\ \A k \in 1..Len(eventTitles'[r]) : eventTitles'[r][k].src = "fallback"
              /\ REQUEST_CACHE' = REQUEST_CACHE
       /\ ContentResolved(r) =>
            (ContentResolved(r)' /\ providerCalls'[r] = providerCalls[r])]_vars

\* A request whose second provider call (a retry) failed without a further
\* retry has sent its summary, built from fallback items.
C25_Witness ==
  \E r \in Reqs :
    /\ pc[r] = "done" /\ providerCalls[r] = 2 /\ retryCount[r] = 1
    /\ Len(eventTitles[r]) = req[r].count
    /\ \A k \in 1..Len(eventTitles[r]) : eventTitles[r][k].src = "fallback"

\* C26: every list the cache holds is a non-empty list of items returned by
\* the provider: no fallback item and no empty list is ever stored.
C26_CacheHoldsProviderListsOnly ==
  \A key \in DOMAIN REQUEST_CACHE :
    /\ REQUEST_CACHE[key].events # << >>
    /\ \A k \in 1..Len(REQUEST_CACHE[key].events) :
         REQUEST_CACHE[key].events[k].src = "provider"

\* After a retry the provider returned fewer items than count: the request's
\* list was padded with fallback items, the cached list was not.
C26_Witness ==
  \E r \in Reqs :
    /\ ContentResolved(r) /\ retryCount[r] >= 1
    /\ NormalizedKey(req[r]) \in DOMAIN REQUEST_CACHE
    /\ Len(REQUEST_CACHE[NormalizedKey(req[r])].events) < req[r].count
    /\ \E k \in 1..Len(eventTitles[r]) : eventTitles[r][k].src = "fallback"

\* C27: the cache check of a request returns the entry stored under its key
\* exactly while the entry is younger than 5 minutes: then the request goes
\* on with the cached items and queries nobody; from 5 minutes on, as when
\* there is no entry, the request turns to the provider.
C27_EntryExpiresAtTTL ==
  [][\A r \in Reqs :
       (pc[r] = "gen" /\ pc'[r] # "gen") =>
         IF FreshEntryFor(r)
         THEN /\ pc'[r] \notin {"fetch", "ratewait"}
              /\ eventTitles'[r][1] = REQUEST_CACHE[NormalizedKey(req[r])].events[1]
         ELSE /\ pc'[r] \in {"fetch", "ratewait"}
              /\ pc'[r] = "fetch" => providerCalls'[r] = providerCalls[r] + 1]_vars

\* A request has queried the provider although the cache holds an entry for
\* its key: the entry is 5 minutes old.
C27_Witness ==
  \E r1, r2 \in Reqs :
    /\ r1 # r2 /\ SameKey(r1, r2)
    /\ pc[r1] = "fetch" /\ providerCalls[r1] = 1 /\ providerCalls[r2] = 1
    /\ NormalizedKey(req[r1]) \in DOMAIN REQUEST_CACHE
    /\ REQUEST_CACHE[NormalizedKey(req[r1])].age = CACHE_TTL
    /\ elapsed = CACHE_TTL

\* A request was served from an entry one second younger than 5 minutes.
C27_HitJustBeforeTTL ==
  \E r1, r2 \in Reqs :
    /\ r1 # r2 /\ SameKey(r1, r2)
    /\ ContentResolved(r1) /\ providerCalls[r1] = 0
    /\ REQUEST_CACHE[NormalizedKey(req[r1])].age = CACHE_TTL - 1

\* C28: in every iteration of the allocation loop the day-offset used to
\* place the event, the one-day jitter included, lies in [0, totalDays - 1].
C28_DayOffsetInRange ==
  \A r \in Reqs :
    pc[r] = "alloc" =>
      \A jitter \in Jitters :
        LET days == totalDays(req[r])
            offset == daysOffset(allocI[r], req[r].count, days) + jitter
        IN 0 <= offset /\ offset <= days - 1

\* C29: no interval handed to the store starts before the current time or
\* more than one year after it.  The current time lies within day 0: a start
\* before day 1 may be in the past, a start on day 366 or later is more than
\* one year ahead.
C29_StartWithinOneYear ==
  \A r \in Reqs : \A k \in 1..Len(createdEvents[r]) :
    LET start == createdEvents[r][k].event.start
    IN /\ start >= MINUTES_PER_DAY
       /\ start < (ONE_YEAR_DAYS + 1) * MINUTES_PER_DAY

\* The working-hour window that begins on day d: from earliestStartTime to
\* 1 AM of the following day.
InWindowOfDay(start, end, d, est) ==
  /\ start >= d * MINUTES_PER_DAY + est * 60
  /\ end <= (d + 1) * MINUTES_PER_DAY + 60

\* C30: every allocated interval lies in the working-hour window of one day:
\* it starts at or after earliestStartTime and ends no later than 1 AM of the
\* following day.
C30_InsideWorkingWindow ==
  \A r \in Reqs : \A k \in 1..Len(createdEvents[r]) :
    LET e == createdEvents[r][k].event
    IN \E d \in {(e.start \div MINUTES_PER_DAY) - 1, e.start \div MINUTES_PER_DAY} :
         InWindowOfDay(e.start, e.end, d, req[r].earliestStartTime)

\* C31: during a request the scheduled set only grows, by one interval at its
\* end per placed item; when item i is allocated the set holds exactly the
\* intervals of the items placed before it, in the order of placement.
C31_ScheduledSetGrowsSequentially ==
  /\ \A r \in Reqs :
       /\ Len(scheduledEvents[r]) = Len(createdEvents[r])
       /\ Len(scheduledEvents[r]) + skippedEvents[r] = allocI[r]
       /\ \A k \in 1..Len(scheduledEvents[r]) :
            /\ scheduledEvents[r][k].start = createdEvents[r][k].event.start
            /\ scheduledEvents[r][k].end = createdEvents[r][k].event.end
            /\ scheduledEvents[r][k].title = createdEvents[r][k].event.summary
  /\ [][\A r \in Reqs :
          \/ scheduledEvents'[r] = scheduledEvents[r]
          \/ /\ pc[r] = "alloc"
             /\ Len(scheduledEvents'[r]) = Len(scheduledEvents[r]) + 1
             /\ SubSeq(scheduledEvents'[r], 1, Len(scheduledEvents[r])) = scheduledEvents[r]]_vars

\* The third item of a request has been placed after the second one was
\* skipped: the scheduled set holds the first and the third interval.
C31_Witness ==
  \E r \in Reqs :
    /\ allocI[r] = 3 /\ skippedEvents[r] = 1 /\ Len(scheduledEvents[r]) = 2
    /\ scheduledEvents[r][1].end <= scheduledEvents[r][2].start

\* SpecFallback: generateFallbackEvents called on its own with a description
\* of every category and every count up to MAX_COUNT.
FallbackDescriptions ==
  {Str_empty, Str_gym, Str_GymSp, Str_work, Str_job, Str_study, Str_school,
   Str_work \o <<" ">> \o Str_study, Str_gym \o <<" ">> \o Str_college}

FallbackCalls ==
  {[fn |-> "generateFallbackEvents", args |-> <<d, c>>, done |-> FALSE, result |-> << >>] :
     d \in FallbackDescriptions, c \in 0..MAX_COUNT}

InitFallback == Started /\ utilCall \in FallbackCalls

CallFallback ==
  /\ utilCall.fn = "generateFallbackEvents"
  /\ ~utilCall.done
  /\ utilCall' = [utilCall EXCEPT
       !.done = TRUE,
       !.result = generateFallbackEvents(utilCall.args[1], utilCall.args[2])]
  /\ UNCHANGED <<reqVars, contentVars, allocVars, batchVars, sharedVars, histVars,
                 sleepLeft, calendar, elapsed, mgmtVars>>

NextFallback == CallFallback

SpecFallback == InitFallback /\ [][NextFallback]_vars

\* ===================================================================== claims
\* The phase of a request: 0 not arrived, 1 ValidatingInput has rejected it,
\* 2 ResolvingContent, 3 AllocatingSlots, 4 ExecutingBatches, 5 Done (summary
\* sent), 6 ended with an error.
Phase(p) ==
  CASE p = "idle" -> 0
    [] p = "rejected" -> 1
    [] p \in {"gen", "fetch", "ratewait", "sleep429", "backoff"} -> 2
    [] p = "alloc" -> 3
    [] p \in {"settling", "cooldown"} -> 4
    [] p = "done" -> 5
    [] OTHER -> 6

\* C32: a request goes through its phases in order.  While it resolves
\* content no slot is allocated; while it allocates slots it holds exactly
\* count content items and no store call has been dispatched; store calls are
\* dispatched only when all count items have been through the allocation
\* loop; the summary is sent last; a request never goes back to an earlier
\* phase and leaves a terminal phase no more.
C32_PhasesInOrder ==
  /\ \A r \in Reqs :
       /\ Phase(pc[r]) <= 2 =>
            /\ allocI[r] = 0 /\ scheduledEvents[r] = << >> /\ createdEvents[r] = << >>
            /\ storeCalls[r] = << >> /\ inFlight[r] = 0
       /\ Phase(pc[r]) = 3 =>
            /\ Len(eventTitles[r]) = req[r].count /\ allocI[r] < req[r].count
            /\ storeCalls[r] = << >> /\ inFlight[r] = 0
            /\ \A e \in calendar : e.id.owner # r
       /\ Phase(pc[r]) \in {4, 5} => allocI[r] = req[r].count
       /\ response[r].status = 200 <=> pc[r] = "done"
       /\ pc[r] = "done" => batchI[r] >= Len(createdEvents[r])
  /\ [][\A r \in Reqs :
          /\ Phase(pc'[r]) >= Phase(pc[r])
          /\ Phase(pc[r]) \in {1, 5, 6} => pc'[r] = pc[r]
          /\ Phase(pc[r]) = 0 => Phase(pc'[r]) <= 2
          /\ Phase(pc[r]) = 2 => Phase(pc'[r]) <= 3]_vars

\* A request of two groups has gone through all phases: it called the
\* provider, placed its events, and sent its summary.
C32_Witness ==
  \E r \in Reqs :
    /\ pc[r] = "done" /\ response[r].status = 200
    /\ providerCalls[r] >= 1
    /\ Len(createdEvents[r]) > BATCH_SIZE
    /\ successfulCount[r] = Len(createdEvents[r])

\* C33: when the provider answers with k items, 0 < k < count, the request
\* leaves content resolution in that step with the k provider items followed
\* by the count - k fallback items of its description, and no provider call
\* is made for the request from then on.
C33_ShortfallToppedUpWithoutRetry ==
  [][\A r \in Reqs :
       /\ \A items \in ProviderLists :
            (ProviderReply(r, "ok", items, 0) /\ Len(items) < req[r].count) =>
              /\ pc'[r] = "alloc"
              /\ eventTitles'[r] =
                   items \o generateFallbackEvents(req[r].userInput,
                                                   req[r].count - Len(items))
              /\ retryCount'[r] = retryCount[r]
              /\ providerCalls'[r] = providerCalls[r]
       /\ Phase(pc[r]) >= 3 => providerCalls'[r] = providerCalls[r]]_vars

\* The provider was called once and answered with two items for a request of
\* four: the list holds the two provider items and then two fallback items.
C33_Witness ==
  \E r \in Reqs :
    /\ Phase(pc[r]) >= 3
    /\ req[r].count = 4 /\ Len(eventTitles[r]) = 4
    /\ providerCalls[r] = 1 /\ retryCount[r] = 0
    /\ eventTitles[r][1].src = "provider" /\ eventTitles[r][2].src = "provider"
    /\ eventTitles[r][3].src = "fallback" /\ eventTitles[r][4].src = "fallback"
    /\ SubSeq(eventTitles[r], 3, 4) = generateFallbackEvents(req[r].userInput, 2)

\* C34: generateFallbackEvents(description, count) returns exactly count
\* items, fixed by its inputs: item i (from 0) has the title and duration of
\* template i mod L of the category selected by the description, and carries
\* the pass number floor(i / L) + 1 as suffix exactly when i >= L.
C34_FallbackCyclesTemplates ==
  (utilCall.fn = "generateFallbackEvents" /\ utilCall.done) =>
    LET templates == FALLBACK_EVENTS[selectedCategory(utilCall.args[1])]
        L == Len(templates)
        count == utilCall.args[2]
        result == utilCall.result
    IN /\ Len(result) = count
       /\ \A i \in 0..(count - 1) :
            /\ result[i + 1].title[1] = templates[(i % L) + 1][1]
            /\ result[i + 1].duration = templates[(i % L) + 1][2]
            /\ (result[i + 1].title[2] # 0) <=> (i >= L)
            /\ i >= L => result[i + 1].title[2] = (i \div L) + 1
       /\ \A other \in FallbackCalls :
            other.args = utilCall.args =>
              generateFallbackEvents(other.args[1], other.args[2]) = result

\* A call for 25 academic items has returned: the list is in its third pass.
C34_Witness ==
  /\ utilCall.fn = "generateFallbackEvents" /\ utilCall.done
  /\ utilCall.args = <<Str_study, 25>>
  /\ Len(utilCall.result) = 25
  /\ utilCall.result[1].title = <<"Study Session", 0>>
  /\ utilCall.result[11].title = <<"Study Session", 2>>
  /\ utilCall.result[25].title = <<"Online Course", 3>>

\* C39: within one call of generateFallbackEvents the titles are pairwise
\* distinct, for every category and every count from 1 to 30.
C39_FallbackTitlesDistinct ==
  (utilCall.fn = "generateFallbackEvents" /\ utilCall.done
     /\ utilCall.args[2] \in 1..MAX_COUNT) =>
    \A i, j \in 1..Len(utilCall.result) :
      i # j => TitleText(utilCall.result[i].title) # TitleText(utilCall.result[j].title)

\* A call for 30 work items has returned: every template was used three times.
C39_Witness ==
  /\ utilCall.fn = "generateFallbackEvents" /\ utilCall.done
  /\ selectedCategory(utilCall.args[1]) = "work"
  /\ Len(utilCall.result) = MAX_COUNT
  /\ utilCall.result[1].title[1] = utilCall.result[21].title[1]
  /\ TitleText(utilCall.result[21].title) = <<"Team Standup Meeting", " ", "(", 3, ")">>

\* C35: every event the handler builds, and every event of the store that a
\* request created, carries generated_by = "funny_calendar_filler"; the
\* listing returns and the deletion finds only events that carry it; and a
\* step removes from the store only events that carry it.
Tagged(e) == e.event.generated_by = "funny_calendar_filler"

C35_OnlyTaggedEventsConcerned ==
  /\ \A r \in Reqs : \A k \in 1..Len(createdEvents[r]) :
       createdEvents[r][k].event.generated_by = "funny_calendar_filler"
  /\ \A e \in calendar : e.id.owner \in Reqs => Tagged(e)
  /\ \A e \in deletion.found : Tagged(e)
  /\ \A x \in listing.events : x.id.owner \in Reqs
  /\ [][/\ \A e \in calendar \ calendar' : Tagged(e)
        /\ listing' # listing =>
             \A x \in listing'.events :
               \E e \in calendar : e.id = x.id /\ Tagged(e)]_vars

\* The deletion found the store holding an event of the calendar's owner and
\* events of a request; it deleted one of the latter, the former is still
\* there; and a listing returned an event while the owner's event was stored.
C35_Witness ==
  /\ deletion.status = 200 /\ deletion.successfully_deleted >= 1
  /\ \E e \in deletion.stored : ~Tagged(e) /\ e \in calendar
  /\ listing.status = 200 /\ listing.events # {}

\* The window that begins at startHour of day d and ends at endHour of the
\* following day.
LiesInWrapWindow(t, startHour, endHour) ==
  \E d \in {(t \div MINUTES_PER_DAY) - 1, t \div MINUTES_PER_DAY} :
    /\ t >= d * MINUTES_PER_DAY + startHour * 60
    /\ t < (d + 1) * MINUTES_PER_DAY + endHour * 60

\* C36: with endHour <= startHour the working hours are one window from
\* startHour to endHour of the next day: isWithinWorkingHours accepts a time
\* exactly when it lies in such a window, and a slot that the search of
\* findAvailableTimeSlot accepts starts and ends in such a window.
C36_WrapWindowContiguous ==
  /\ (/\ utilCall.fn = "isWithinWorkingHours" /\ utilCall.done
      /\ utilCall.args.endHour <= utilCall.args.startHour
      /\ utilCall.args.allowWeekends) =>
       (utilCall.result.ok <=>
          LiesInWrapWindow(utilCall.args.date, utilCall.args.startHour,
                           utilCall.args.endHour))
  /\ (/\ utilCall.fn = "findAvailableTimeSlot" /\ utilCall.done
      /\ utilCall.args.endHour <= utilCall.args.startHour
      /\ utilCall.result.kind = "slot") =>
       /\ LiesInWrapWindow(utilCall.result.start, utilCall.args.startHour,
                           utilCall.args.endHour)
       /\ utilCall.result.end <= workingHoursEnd(utilCall.args)

\* C37: a slot findAvailableTimeSlot returns overlaps no interval of
\* scheduledEvents, also when the loop used up its attempts or moved on to a
\* following day.
C37_ReturnedSlotNeverOverlaps ==
  (/\ utilCall.fn = "findAvailableTimeSlot" /\ utilCall.done
   /\ utilCall.result.kind # "null") =>
    \A k \in 1..Len(utilCall.args.scheduled) :
      ~timeRangesOverlap(utilCall.result.start, utilCall.result.end,
                         utilCall.args.scheduled[k].start,
                         utilCall.args.scheduled[k].end)

\* The minutes a printed duration stands for: 1440 per "d", 60 per "h", one
\* per "m" or "min".
UnitMinutes(unit) ==
  IF unit = "d" THEN MINUTES_PER_DAY ELSE IF unit = "h" THEN 60 ELSE 1

RECURSIVE PrintedMinutes(_)
PrintedMinutes(parts) ==
  IF parts = << >> THEN 0
  ELSE Head(parts)[1] * UnitMinutes(Head(parts)[2]) + PrintedMinutes(Tail(parts))

\* C40: for every integer m >= 0 the days, hours and minutes that
\* formatDuration(m) prints add up to m minutes.
C40_FormatDurationLosesNothing ==
  (utilCall.fn = "formatDuration" /\ utilCall.done) =>
    PrintedMinutes(utilCall.result) = utilCall.args

\* C38: under every interleaving of the requests, each key of the cache is a
\* normalised description with a count, and the entry under it holds the list
\* of one successful provider answer to a request with that key, as the
\* provider returned it: an entry's list changes only in the step in which
\* the provider answers a request of that key, to exactly the list of that
\* answer, and the entries of all other keys stay as they are.
C38_CacheEntriesUncorrupted ==
  /\ \A k \in DOMAIN REQUEST_CACHE :
       /\ k[1] = trim(toLowerCase(k[1]))
       /\ REQUEST_CACHE[k].events \in KeyLists
       /\ \E r \in Reqs : Arrived(r) /\ NormalizedKey(req[r]) = k /\ providerCalls[r] >= 1
  /\ [][/\ DOMAIN REQUEST_CACHE \subseteq DOMAIN REQUEST_CACHE'
        /\ \A k \in DOMAIN REQUEST_CACHE' :
             \/ /\ k \in DOMAIN REQUEST_CACHE
                /\ REQUEST_CACHE'[k].events = REQUEST_CACHE[k].events
             \/ \E r \in Reqs, items \in KeyLists :
                  /\ ProviderReply(r, "ok", items, 0)
                  /\ NormalizedKey(req[r]) = k
                  /\ REQUEST_CACHE'[k] = [events |-> items, age |-> 0]
                  /\ \A other \in DOMAIN REQUEST_CACHE' \ {k} :
                       /\ other \in DOMAIN REQUEST_CACHE
                       /\ REQUEST_CACHE'[other] = REQUEST_CACHE[other]]_vars

\* Two requests with the same key, written differently, both missed the cache
\* and both called the provider; the first got the short list and the second
\* the long one, which is the list the entry holds.
C38_Witness ==
  \E r1, r2 \in Reqs :
    /\ r1 # r2 /\ SameKey(r1, r2) /\ req[r1].userInput # req[r2].userInput
    /\ providerCalls[r1] = 1 /\ providerCalls[r2] = 1
    /\ Phase(pc[r1]) >= 3 /\ Phase(pc[r2]) >= 3
    /\ eventTitles[r1][1].title = <<"AI Event", 0>>
    /\ eventTitles[r2][1].title = <<"AI Event", 1>>
    /\ Len(REQUEST_CACHE[NormalizedKey(req[r1])].events) = 2

====
